---- MODULE Spec2Model ----
(***************************************************************************)
(* Row-generation engine of the dataset generator: the generation manager  *)
(* (generate_rows / cancel_generation commands and the background worker), *)
(* the active-generation registry, the model cache and the part of the     *)
(* tabular store the worker talks to.                                      *)
(***************************************************************************)
EXTENDS Integers, Sequences, FiniteSets, TLC

\* ---------------------------------------------------------------- bounds
MaxTarget == 3        \* largest total_rows_to_generate a command passes
MaxClock == 1         \* the wall clock runs over 0..MaxClock milliseconds
MaxCols == 2          \* rows the columns table can hold
MaxSortCols == 3      \* longest column list handed to the sorter alone
MaxResponseLen == 3   \* longest model response, in pieces of text
MaxRuleLen == 3       \* longest rule handed to prepare_prompt, in tokens
MaxVocab == 3         \* largest vocabulary of the model in the decode loop
MaxLongTokens == 15   \* max_tokens of the long runs of the decode loop
MaxShortTokens == 6   \* max_tokens of the runs with newline and fence tokens
MaxTokens == 3        \* largest max_tokens of an inference configuration
MaxChunks == 2        \* chunks of the response body of one download
MaxPaths == 3         \* model paths the callers of the cache choose from
MaxDatasets == 2      \* datasets created in a run
MaxTableRows == 1     \* rows stored in one row table
MaxRows == 2          \* rows the concurrent add_row callers insert
MaxRowCols == 2       \* most columns of the row assembled over the sorter's output
MaxJsonLen == 4       \* longest response handed to generate_json, in characters
MaxTextLen == 4       \* longest text handed to clean_text_artifacts, in characters

\* ------------------------------------------------------ program constants
MAX_CACHED_MODELS == 2
LAST_TOKENS_LEN == 10     \* the window of last_tokens in the decode loop
REPETITION_LIMIT == 3     \* repetition_count above which the loop breaks
EARLY_STOP_AFTER == 10    \* tokens_generated above which the stops apply
RESPONSE_LIMIT == 200     \* response.len() above which the loop breaks

Workers == {1, 2, 3}          \* generate_rows calls of one run
DatasetIds == {1, 2}          \* dataset 1 is in datasets_metadata, 2 is not
ModelIds == {1, 2, 3}         \* ids of the rows of the models table
Targets == 0..MaxTarget
GenerationIds == DatasetIds \X (0..MaxClock)

\* ------------------------------------------------------------------ state
VARIABLES
    now,                 \* SystemTime::now() in milliseconds
    active_generations,  \* GenerationService.active_generations: id -> token
    cancelled,           \* state of the CancellationToken made for each session
    model_cache,         \* GenerationService.model_cache: the cached paths
    columns,             \* rows of the columns table, in get_columns order
    table_exists,        \* the row table of dataset 1 has been created
    sess,                \* each session's worker: position and locals
    events,              \* what each session emitted on the window, in order
    persisted,           \* number of rows each session inserted via add_row
    cancel_at,           \* where the session was when cancel first hit it
    cancel_result,       \* return value of the last cancel_generation call
    fn_input,            \* arguments of the function call under study
    fn_output,           \* what that call returned, once it has returned
    rows                 \* the row table of dataset 1, in id order

vars == <<now, active_generations, cancelled, model_cache, columns,
          table_exists, sess, events, persisted, cancel_at, cancel_result,
          fn_input, fn_output, rows>>

\* ------------------------------------------------------------ the store
\* A row of the columns table; rules holds the @(\w+) captures of the rule.
\* The create_column command stores every column with position 0.
Column(id, name, column_type, rules) ==
    [id |-> id, dataset_id |-> 1, name |-> name,
     column_type |-> column_type, rules |-> rules, position |-> 0]

\* i64::to_string for the ids in use.
Decimal(n) == <<"0", "1", "2", "3", "4", "5", "6", "7", "8", "9">>[n + 1]

RowData(column_id, value) == [column_id |-> column_id, value |-> value]

\* A row of the row table: AUTOINCREMENT id and the JSON array of cells.
Row(id, data) == [id |-> id, data |-> data]

\* Column lists the database file can hold when the application starts.
StoreColumnLists ==
    { <<>>,
      << Column(1, "a", "TEXT", <<>>) >>,
      << Column(1, "b", "JSON", <<"a">>), Column(2, "a", "TEXT", <<>>) >>,
      << Column(1, "a", "TEXT", <<"b">>), Column(2, "b", "TEXT", <<"a">>) >>,
      << Column(1, "a", "DATE", <<>>) >> }

datasets_metadata == {1}

find_by_id(id) == id > 0 /\ id \in datasets_metadata

get_columns(dataset_id) ==
    SelectSeq(columns, LAMBDA c : c.dataset_id = dataset_id)

get_model_info(model_id) == model_id \in ModelIds

\* DatasetService::add_row succeeds iff the dataset exists, every column the
\* dataset has now is present in the data, and the row table can be written.
add_row_ok(dataset_id, data) ==
    /\ find_by_id(dataset_id)
    /\ \A i \in 1..Len(get_columns(dataset_id)) :
          \E j \in 1..Len(data) : data[j] = get_columns(dataset_id)[i].id
    /\ table_exists

\* The row add_row stores: one cell per column the dataset has now, in
\* get_columns order, whatever else the data holds.
stored_row(dataset_id, value) ==
    Row(Len(rows) + 1,
        [k \in 1..Len(get_columns(dataset_id)) |->
            RowData(Decimal(get_columns(dataset_id)[k].id), value)])

\* json_insert(data, '$[#]', {column_id, value}) on every row whose data is
\* a non-empty array.
json_insert_all(table, column_id, value) ==
    [i \in 1..Len(table) |->
        IF table[i].data = <<>> THEN table[i]
        ELSE Row(table[i].id, Append(table[i].data, RowData(column_id, value)))]

\* ------------------------------------------------- dependency sorter
Max(S) == CHOOSE x \in S : \A y \in S : y <= x

\* name_to_index: a HashMap collected from (name, i) pairs, so the last
\* column of a name wins; 0 stands for "no such key".
name_to_index(cols, name) ==
    LET S == {i \in 1..Len(cols) : cols[i].name = name}
    IN  IF S = {} THEN 0 ELSE Max(S)

\* An edge test that lets a column depend on itself.
is_dependency_with_self(dep_index, i) == dep_index # 0

\* if let Some(&dep_index) = name_to_index.get(dep_name) { if dep_index != i
is_dependency(dep_index, i) == dep_index # 0 /\ dep_index # i

\* The (dep_index, i) pairs in the order the two nested loops record them.
RECURSIVE rule_edges(_, _, _)
rule_edges(cols, i, k) ==
    IF k > Len(cols[i].rules) THEN <<>>
    ELSE LET dep_index == name_to_index(cols, cols[i].rules[k])
         IN  (IF is_dependency(dep_index, i)
                 THEN << <<dep_index, i>> >> ELSE <<>>)
             \o rule_edges(cols, i, k + 1)

RECURSIVE all_edges(_, _)
all_edges(cols, i) ==
    IF i > Len(cols) THEN <<>>
    ELSE rule_edges(cols, i, 1) \o all_edges(cols, i + 1)

RECURSIVE seq_count(_, _)
seq_count(q, x) ==
    IF q = <<>> THEN 0
    ELSE (IF Head(q) = x THEN 1 ELSE 0) + seq_count(Tail(q), x)

RECURSIVE seq_map2(_)
seq_map2(q) == IF q = <<>> THEN <<>> ELSE <<Head(q)[2]>> \o seq_map2(Tail(q))

\* reverse_deps keyed by the dependent instead of the dependency.
reverse_deps_swapped(cols, dep_index) ==
    seq_map2(SelectSeq([k \in 1..Len(all_edges(cols, 1)) |->
                           <<all_edges(cols, 1)[k][2], all_edges(cols, 1)[k][1]>>],
                       LAMBDA e : e[1] = dep_index))

reverse_deps(cols, dep_index) ==
    seq_map2(SelectSeq(all_edges(cols, 1), LAMBDA e : e[1] = dep_index))

in_degree(cols) ==
    [i \in 1..Len(cols) |-> seq_count(seq_map2(all_edges(cols, 1)), i)]

\* The inner for loop over the dependents of the popped index.
RECURSIVE relax(_, _, _)
relax(dependents, degree, queue) ==
    IF dependents = <<>> THEN <<degree, queue>>
    ELSE LET d == Head(dependents)
             degree2 == [degree EXCEPT ![d] = @ - 1]
         IN  relax(Tail(dependents), degree2,
                   IF degree2[d] = 0 THEN Append(queue, d) ELSE queue)

\* The while-let loop: pop the front, push it on sorted_indices, relax.
RECURSIVE kahn(_, _, _, _)
kahn(cols, degree, queue, sorted_indices) ==
    IF queue = <<>> THEN sorted_indices
    ELSE LET r == relax(reverse_deps(cols, Head(queue)), degree, Tail(queue))
         IN  kahn(cols, r[1], r[2], Append(sorted_indices, Head(queue)))

RECURSIVE zero_degree(_, _)
zero_degree(degree, i) ==
    IF i > Len(degree) THEN <<>>
    ELSE (IF degree[i] = 0 THEN <<i>> ELSE <<>>) \o zero_degree(degree, i + 1)

\* A queue seeded with the zero-in-degree columns in reverse input order.
seed_queue_reversed(degree) ==
    LET q == zero_degree(degree, 1)
    IN  [k \in 1..Len(q) |-> q[Len(q) + 1 - k]]

\* The VecDeque collected from the (i, degree) pairs with degree == 0.
seed_queue(degree) == zero_degree(degree, 1)

\* The sorter without the final length comparison.
sort_columns_by_dependency_unchecked(cols) ==
    IF cols = <<>> THEN [ok |-> TRUE, value |-> <<>>]
    ELSE LET degree == in_degree(cols)
             sorted_indices == kahn(cols, degree, seed_queue(degree), <<>>)
         IN  [ok |-> TRUE,
              value |-> [k \in 1..Len(sorted_indices) |-> cols[sorted_indices[k]]]]

\* Result<Vec<Column>, String>: ok = FALSE is the circular-dependency error.
sort_columns_by_dependency(cols) ==
    IF cols = <<>> THEN [ok |-> TRUE, value |-> <<>>]
    ELSE LET degree == in_degree(cols)
             sorted_indices == kahn(cols, degree, seed_queue(degree), <<>>)
         IN  IF Len(sorted_indices) # Len(cols)
                THEN [ok |-> FALSE, value |-> <<>>]
                ELSE [ok |-> TRUE,
                      value |-> [k \in 1..Len(cols) |-> cols[sorted_indices[k]]]]

\* ------------------------------------------------ generation manager
IdleSession ==
    [pc |-> "idle", generation_id |-> <<0, 0>>, dataset_id |-> 0,
     model_id |-> 0, total_rows_to_generate |-> 0, sorted_columns |-> <<>>,
     row_index |-> 0, col |-> 0, data |-> <<>>, result |-> "none"]

StatusEvent(status) == [kind |-> "generation-status", status |-> status, completed |-> 0]
ProgressEvent(n) == [kind |-> "generation-progress", status |-> "generating", completed |-> n]

IsProgress(e) == e.kind = "generation-progress"
IsTerminal(e) ==
    e.kind = "generation-status" /\ e.status \in {"completed", "cancelled", "failed"}

Progress(s) == SelectSeq(events[s], IsProgress)
Terminals(s) == SelectSeq(events[s], IsTerminal)

\* cancel_at of a session no cancel_generation call has reached.
NoCancel == [k |-> -1, row_index |-> -1, pc |-> "none"]

\* No function call is under study / the call has not returned yet.
NoCall == [fn |-> "none"]
NotReturned == [done |-> FALSE]

\* The services right after GenerationService::new, nothing started.
InitServices ==
    /\ now = 0
    /\ active_generations = [g \in {} |-> 0]
    /\ cancelled = [s \in Workers |-> FALSE]
    /\ model_cache = {}
    /\ sess = [s \in Workers |-> IdleSession]
    /\ events = [s \in Workers |-> <<>>]
    /\ persisted = [s \in Workers |-> 0]
    /\ cancel_at = [s \in Workers |-> NoCancel]
    /\ cancel_result = "none"
    /\ rows = <<>>

Init ==
    /\ InitServices
    /\ columns \in StoreColumnLists
    /\ table_exists = (columns # <<>>)
    /\ fn_input = NoCall
    /\ fn_output = NotReturned

\* HashMap::insert: a second insert under the same key replaces the token.
register_generation(generation_id, cancel_token) ==
    [g \in (DOMAIN active_generations) \cup {generation_id} |->
        IF g = generation_id THEN cancel_token ELSE active_generations[g]]

\* HashMap::remove by key, whoever inserted the entry.
unregister_generation(generation_id) ==
    [g \in (DOMAIN active_generations) \ {generation_id} |-> active_generations[g]]

\* format!("gen_{}_{}", dataset_id, now.as_millis())
make_generation_id(dataset_id) == <<dataset_id, now>>

\* The generate_rows command up to its return: build the id, register the
\* token, spawn the worker task.
generate_rows(s, dataset_id, model_id, total_rows_to_generate) ==
    /\ sess[s].pc = "idle"
    /\ \A t \in Workers : t < s => sess[t].pc # "idle"
    /\ active_generations' = register_generation(make_generation_id(dataset_id), s)
    /\ sess' = [sess EXCEPT ![s] =
                  [IdleSession EXCEPT !.pc = "spawned",
                                      !.generation_id = make_generation_id(dataset_id),
                                      !.dataset_id = dataset_id,
                                      !.model_id = model_id,
                                      !.total_rows_to_generate = total_rows_to_generate]]
    /\ UNCHANGED <<rows, fn_input, fn_output, now, cancelled, model_cache, columns, table_exists, events,
                   persisted, cancel_at, cancel_result>>

\* The spawned task emits "started", then GenerationService::generate runs
\* up to its for loop: get_columns, get_model_info, sort (expect panics).
worker_start(s) ==
    /\ sess[s].pc = "spawned"
    /\ events' = [events EXCEPT ![s] = Append(@, StatusEvent("started"))]
    /\ LET sorted == sort_columns_by_dependency(get_columns(sess[s].dataset_id))
       IN  sess' = [sess EXCEPT ![s] =
             IF ~get_model_info(sess[s].model_id)
                THEN [@ EXCEPT !.pc = "finish", !.result = "error"]
             ELSE IF ~sorted.ok
                THEN [@ EXCEPT !.pc = "finish", !.result = "panic"]
             ELSE [@ EXCEPT !.pc = "loop", !.sorted_columns = sorted.value]]
    /\ UNCHANGED <<rows, fn_input, fn_output, now, active_generations, cancelled, model_cache, columns,
                   table_exists, persisted, cancel_at, cancel_result>>

\* A loop that never looks at the token.
is_cancelled_never(s) == FALSE

is_cancelled(s) == cancelled[s]

\* A range that still yields its upper end.
range_exhausted_inclusive(row_index, total) == row_index > total

\* for row_index in 0..total_rows_to_generate: the range is used up.
range_exhausted(row_index, total) == row_index >= total

\* generate_row without its empty-columns early return.
generate_loop_always_loads(s) ==
    /\ sess[s].pc = "loop"
    /\ sess' = [sess EXCEPT ![s] =
         IF range_exhausted(sess[s].row_index, sess[s].total_rows_to_generate)
            THEN [@ EXCEPT !.pc = "finish", !.result = "ok"]
         ELSE IF is_cancelled(s)
            THEN [@ EXCEPT !.pc = "finish", !.result = "cancelled"]
         ELSE [@ EXCEPT !.pc = "load", !.data = <<>>]]
    /\ UNCHANGED <<rows, fn_input, fn_output, now, active_generations, cancelled, model_cache, columns,
                   table_exists, events, persisted, cancel_at, cancel_result>>

\* Head of the for loop over row_index, the cancel check, and the entry of
\* generate_row with its empty-columns early return.
generate_loop(s) ==
    /\ sess[s].pc = "loop"
    /\ sess' = [sess EXCEPT ![s] =
         IF range_exhausted(sess[s].row_index, sess[s].total_rows_to_generate)
            THEN [@ EXCEPT !.pc = "finish", !.result = "ok"]
         ELSE IF is_cancelled(s)
            THEN [@ EXCEPT !.pc = "finish", !.result = "cancelled"]
         ELSE IF sess[s].sorted_columns = <<>>
            THEN [@ EXCEPT !.pc = "callback", !.data = <<>>]
         ELSE [@ EXCEPT !.pc = "load", !.data = <<>>]]
    /\ UNCHANGED <<rows, fn_input, fn_output, now, active_generations, cancelled, model_cache, columns,
                   table_exists, events, persisted, cancel_at, cancel_result>>

\* ------------------------------------------------------- model cache
\* An eviction test written with > instead of >=.
evict_above(cache) ==
    IF Cardinality(cache) > MAX_CACHED_MODELS
       THEN {cache \ {key} : key \in cache}
       ELSE {cache}

\* cache.len() >= MAX_CACHED_MODELS: remove cache.keys().next(); a HashMap
\* iterates in an unspecified order, so any key can be the one removed.
evict(cache) ==
    IF Cardinality(cache) >= MAX_CACHED_MODELS
       THEN {cache \ {key} : key \in cache}
       ELSE {cache}

\* The outcomes of one call under the cache mutex: the cache afterwards and
\* whether a handle (ok) or a Model error came back.
get_or_load_model(cache, model_path) ==
    IF model_path \in cache
       THEN {[cache |-> cache, ok |-> TRUE]}
       ELSE UNION {{[cache |-> c \cup {model_path}, ok |-> TRUE],
                    [cache |-> c, ok |-> FALSE]} : c \in evict(cache)}

clear_model_cache ==
    /\ model_cache' = {}
    /\ UNCHANGED <<rows, fn_input, fn_output, now, active_generations, cancelled, columns, table_exists,
                   sess, events, persisted, cancel_at, cancel_result>>

\* ---------------------------------------------------------- row engine
SupportedTypes == {"TEXT", "INT", "FLOAT", "BOOL", "JSON"}

\* What generating one cell can do: every inference can fail with a model
\* error, json5::from_str can fail on JSON, and a column_type matched by
\* none of the five ifs pushes nothing.
cell_outcomes(column_type) ==
    IF column_type = "JSON" THEN {"ok", "model_error", "parse_error"}
    ELSE IF column_type \in SupportedTypes THEN {"ok", "model_error"}
    ELSE {"skip"}

\* generate_row up to the for loop: get_or_load_model, then new_context.
generate_row_load(s) ==
    /\ sess[s].pc = "load"
    /\ \E r \in get_or_load_model(model_cache, sess[s].model_id) :
          /\ model_cache' = r.cache
          /\ \/ /\ r.ok
                /\ sess' = [sess EXCEPT ![s] = [@ EXCEPT !.pc = "cell", !.col = 1]]
             \/ sess' = [sess EXCEPT ![s] = [@ EXCEPT !.pc = "finish", !.result = "error"]]
    /\ UNCHANGED <<rows, fn_input, fn_output, now, active_generations, cancelled, columns, table_exists,
                   events, persisted, cancel_at, cancel_result>>

\* A for loop that leaves on a failed cell and returns what it has so far.
generate_cell_partial(s) ==
    /\ sess[s].pc = "cell"
    /\ LET column == sess[s].sorted_columns[sess[s].col]
           last == sess[s].col = Len(sess[s].sorted_columns)
       IN  \E outcome \in cell_outcomes(column.column_type) :
             sess' = [sess EXCEPT ![s] =
               IF outcome \in {"model_error", "parse_error"}
                  THEN [@ EXCEPT !.pc = "callback", !.result = "error"]
                  ELSE [@ EXCEPT !.pc = IF last THEN "callback" ELSE "cell",
                                 !.col = @ + 1,
                                 !.data = IF outcome = "ok"
                                             THEN Append(@, column.id) ELSE @]]
    /\ UNCHANGED <<rows, fn_input, fn_output, now, active_generations, cancelled, model_cache, columns,
                   table_exists, events, persisted, cancel_at, cancel_result>>

\* One iteration of the for loop over the columns in generate_row.
generate_cell(s) ==
    /\ sess[s].pc = "cell"
    /\ LET column == sess[s].sorted_columns[sess[s].col]
           last == sess[s].col = Len(sess[s].sorted_columns)
       IN  \E outcome \in cell_outcomes(column.column_type) :
             sess' = [sess EXCEPT ![s] =
               IF outcome \in {"model_error", "parse_error"}
                  THEN [@ EXCEPT !.pc = "finish", !.result = "error", !.data = <<>>]
                  ELSE [@ EXCEPT !.pc = IF last THEN "callback" ELSE "cell",
                                 !.col = @ + 1,
                                 !.data = IF outcome = "ok"
                                             THEN Append(@, column.id) ELSE @]]
    /\ UNCHANGED <<rows, fn_input, fn_output, now, active_generations, cancelled, model_cache, columns,
                   table_exists, events, persisted, cancel_at, cancel_result>>

\* The closure passed to generate: add_row, then either the failed status
\* (and return) or the progress event; the loop goes on in both cases.
progress_callback(s) ==
    /\ sess[s].pc = "callback"
    /\ IF add_row_ok(sess[s].dataset_id, sess[s].data)
          THEN /\ persisted' = [persisted EXCEPT ![s] = @ + 1]
               /\ rows' = Append(rows, stored_row(sess[s].dataset_id, "generated"))
               /\ events' = [events EXCEPT ![s] =
                               Append(@, ProgressEvent(sess[s].row_index + 1))]
          ELSE /\ persisted' = persisted
               /\ rows' = rows
               /\ events' = [events EXCEPT ![s] = Append(@, StatusEvent("failed"))]
    /\ sess' = [sess EXCEPT ![s] = [@ EXCEPT !.pc = "loop", !.row_index = @ + 1,
                                            !.data = <<>>]]
    /\ UNCHANGED <<fn_input, fn_output, now, active_generations, cancelled, model_cache, columns,
                   table_exists, cancel_at, cancel_result>>

\* A match that tells no cancelled error from any other error.
terminal_status_untagged(result) ==
    IF result = "ok" THEN "completed" ELSE "failed"

\* match result: Ok(Ok) -> completed, Ok(Err) -> cancelled when the message
\* contains "cancelled" and failed otherwise, Err (panic) -> failed.
terminal_status(result) ==
    IF result = "ok" THEN "completed"
    ELSE IF result = "cancelled" THEN "cancelled"
    ELSE "failed"

\* A task that reports every session that was not cancelled as completed.
emit_terminal_completed(s) ==
    /\ sess[s].pc = "finish"
    /\ events' = [events EXCEPT ![s] =
                    Append(@, StatusEvent(IF sess[s].result = "cancelled"
                                             THEN "cancelled" ELSE "completed"))]
    /\ sess' = [sess EXCEPT ![s] = [@ EXCEPT !.pc = "unregister"]]
    /\ UNCHANGED <<rows, fn_input, fn_output, now, active_generations, cancelled, model_cache, columns,
                   table_exists, persisted, cancel_at, cancel_result>>

emit_terminal(s) ==
    /\ sess[s].pc = "finish"
    /\ events' = [events EXCEPT ![s] =
                    Append(@, StatusEvent(terminal_status(sess[s].result)))]
    /\ sess' = [sess EXCEPT ![s] = [@ EXCEPT !.pc = "unregister"]]
    /\ UNCHANGED <<rows, fn_input, fn_output, now, active_generations, cancelled, model_cache, columns,
                   table_exists, persisted, cancel_at, cancel_result>>

\* The last statement of the spawned task.
worker_unregister(s) ==
    /\ sess[s].pc = "unregister"
    /\ active_generations' = unregister_generation(sess[s].generation_id)
    /\ sess' = [sess EXCEPT ![s] = [@ EXCEPT !.pc = "done"]]
    /\ UNCHANGED <<rows, fn_input, fn_output, now, cancelled, model_cache, columns, table_exists, events,
                   persisted, cancel_at, cancel_result>>

\* A token whose cancel flips the flag instead of setting it.
token_cancel_toggle(flags, t) == [flags EXCEPT ![t] = ~@]

\* CancellationToken::cancel: sets the flag, there is no way to clear it.
token_cancel(flags, t) == [flags EXCEPT ![t] = TRUE]

cancel_generation(generation_id) ==
    IF generation_id \in DOMAIN active_generations
       THEN /\ cancelled' = token_cancel(cancelled, active_generations[generation_id])
            /\ cancel_at' = [cancel_at EXCEPT ![active_generations[generation_id]] =
                               IF cancelled[active_generations[generation_id]]
                                  THEN @
                                  ELSE [k |-> Len(Progress(active_generations[generation_id])),
                                        row_index |-> sess[active_generations[generation_id]].row_index,
                                        pc |-> sess[active_generations[generation_id]].pc]]
            /\ cancel_result' = "Ok"
            /\ UNCHANGED <<rows, fn_input, fn_output, now, active_generations, model_cache, columns,
                           table_exists, sess, events, persisted>>
       ELSE /\ cancel_result' = "Err"
            /\ UNCHANGED <<rows, fn_input, fn_output, now, active_generations, cancelled, model_cache, columns,
                           table_exists, sess, events, persisted, cancel_at>>

\* ---------------------------------------------------------- environment
Tick ==
    /\ now < MaxClock
    /\ now' = now + 1
    /\ UNCHANGED <<rows, fn_input, fn_output, active_generations, cancelled, model_cache, columns,
                   table_exists, sess, events, persisted, cancel_at, cancel_result>>

\* The create_column command on dataset 1: add_columns creates the row table
\* when it is missing and inserts the column (AUTOINCREMENT id).
create_column ==
    /\ Len(columns) < MaxCols
    /\ find_by_id(1)
    /\ columns' = Append(columns, Column(Len(columns) + 1, "c", "TEXT", <<>>))
    /\ table_exists' = TRUE
    /\ rows' = json_insert_all(rows, Decimal(Len(columns) + 1), "")
    /\ UNCHANGED <<fn_input, fn_output, now, active_generations, cancelled, model_cache, sess, events,
                   persisted, cancel_at, cancel_result>>

\* --------------------------------------------------------- specifications
ManagerModelIds == {0, 1}     \* 0 is no row of the models table

WorkerStep(s) ==
    \/ worker_start(s)
    \/ generate_loop(s)
    \/ generate_row_load(s)
    \/ generate_cell(s)
    \/ progress_callback(s)
    \/ emit_terminal(s)
    \/ worker_unregister(s)

\* One session from the command to the end of its worker, with any target,
\* cancellation at any moment, the clock, and the store changing underneath.
Next ==
    \/ \E d \in DatasetIds, m \in ManagerModelIds, n \in Targets :
          generate_rows(1, d, m, n)
    \/ \E s \in Workers : WorkerStep(s)
    \/ \E g \in GenerationIds : cancel_generation(g)
    \/ Tick
    \/ create_column

Spec == Init /\ [][Next]_vars

\* Two sessions racing on the active-generation registry.
NextRegistry ==
    \/ \E s \in {1, 2}, d \in DatasetIds, n \in {0, 1} : generate_rows(s, d, 1, n)
    \/ \E s \in Workers : WorkerStep(s)
    \/ \E g \in GenerationIds : cancel_generation(g)
    \/ Tick

SpecRegistry == Init /\ [][NextRegistry]_vars

\* The model cache under three sessions that each generate one row.
NextCache ==
    \/ \E s \in Workers, m \in ModelIds : generate_rows(s, 1, m, 1)
    \/ \E s \in Workers : WorkerStep(s)
    \/ clear_model_cache

SpecCache == Init /\ [][NextCache]_vars

\* ---------------------------------------------- the sorter on its own
\* Column names of the lists handed to the sorter; "zz" names no column.
SortNames == <<"a", "b", "c", "d">>
RefName(n, i) == IF i > n THEN "zz" ELSE SortNames[i]

\* The captures of one rule over n columns: none, one, or two (a repeated
\* name included); a capture may name the column itself or no column.
SortRules(n) ==
    {<<>>} \cup {<<RefName(n, i)>> : i \in 1..(n + 1)}
           \cup {<<RefName(n, e[1]), RefName(n, e[2])>> :
                    e \in {f \in (1..(n + 1)) \X (1..(n + 1)) : f[1] <= f[2]}}

\* The list of n columns whose rules are r[1], ..., r[n].
SortInput(n, r) == [i \in 1..n |-> Column(i, SortNames[i], "TEXT", r[i])]

InitSort ==
    /\ InitServices
    /\ columns = <<>>
    /\ table_exists = FALSE
    /\ \E n \in 0..MaxSortCols : \E r \in [1..n -> SortRules(n)] :
          fn_input = [fn |-> "sort_columns_by_dependency",
                      columns |-> SortInput(n, r)]
    /\ fn_output = NotReturned

\* One call of sort_columns_by_dependency with the column-reference pattern.
call_sort_columns_by_dependency ==
    /\ fn_input.fn = "sort_columns_by_dependency"
    /\ ~fn_output.done
    /\ fn_output' = [done |-> TRUE,
                     ret |-> sort_columns_by_dependency(fn_input.columns)]
    /\ UNCHANGED <<rows, fn_input, now, active_generations, cancelled, model_cache,
                   columns, table_exists, sess, events, persisted, cancel_at,
                   cancel_result>>

NextSort == call_sort_columns_by_dependency

SpecSort == InitSort /\ [][NextSort]_vars

\* ------------------------------------- the scalar post-processors
\* A model response is a sequence of pieces of text: single characters the
\* numeric scan looks at, and words that hold no such character.
Digits == {"0", "1", "5"}
SignsAndDot == {".", "-", "+"}
ResponseChunks == Digits \cup SignsAndDot \cup {"x", " ", "true", "false"}

DigitValue(c) == CASE c = "0" -> 0 [] c = "1" -> 1 [] c = "5" -> 5

\* Result<String, GenerationError> of self.inference(...).
InferenceError == [ok |-> FALSE]
InferenceOk(text) == [ok |-> TRUE, text |-> text]

\* c.is_numeric() || c == '.' || c == '-' || c == '+'
is_numeric_char(c) == c \in Digits \cup SignsAndDot

\* The for loop over response.chars(): push while the character matches,
\* break at the first mismatch once something was pushed.
RECURSIVE numeric_part(_, _)
numeric_part(response, acc) ==
    IF response = <<>> THEN acc
    ELSE IF is_numeric_char(Head(response))
        THEN numeric_part(Tail(response), Append(acc, Head(response)))
    ELSE IF acc # <<>> THEN acc
    ELSE numeric_part(Tail(response), acc)

RECURSIVE digits_value(_, _)
digits_value(ds, acc) ==
    IF ds = <<>> THEN acc
    ELSE digits_value(Tail(ds), 10 * acc + DigitValue(Head(ds)))

RECURSIVE strip_zeros(_)
strip_zeros(ds) ==
    IF ds # <<>> /\ ds[Len(ds)] = "0" THEN strip_zeros(SubSeq(ds, 1, Len(ds) - 1))
    ELSE ds

\* A float: sign, integer part, fraction digits without trailing zeros.
Float(neg, int, frac) == [neg |-> neg, int |-> int, frac |-> strip_zeros(frac)]

\* str::parse::<f64> on a string of digits, dots and signs: an optional
\* sign, then digits with at most one dot and at least one digit.
parse_f64(str) ==
    LET signed == str # <<>> /\ str[1] \in {"+", "-"}
        body == IF signed THEN Tail(str) ELSE str
        dots == {i \in 1..Len(body) : body[i] = "."}
        dot == IF dots = {} THEN Len(body) + 1 ELSE CHOOSE i \in dots : TRUE
    IN  IF \/ \E i \in 1..Len(body) : body[i] \notin Digits \cup {"."}
           \/ Cardinality(dots) > 1
           \/ \A i \in 1..Len(body) : body[i] \notin Digits
           THEN [ok |-> FALSE]
           ELSE [ok |-> TRUE,
                 value |-> Float(signed /\ str[1] = "-",
                                 digits_value(SubSeq(body, 1, dot - 1), 0),
                                 SubSeq(body, dot + 1, Len(body)))]

\* f64::round (half away from zero) followed by as i64.
round_as_i64(f) ==
    LET magnitude == f.int + (IF f.frac # <<>> /\ DigitValue(f.frac[1]) >= 5
                                 THEN 1 ELSE 0)
    IN  IF f.neg THEN 0 - magnitude ELSE magnitude

\* A post-processor that hands the parse error to its caller.
generate_integer_strict(inference) ==
    IF ~inference.ok THEN [ok |-> FALSE]
    ELSE LET parsed == parse_f64(numeric_part(inference.text, <<>>))
         IN  IF parsed.ok THEN [ok |-> TRUE, value |-> round_as_i64(parsed.value)]
             ELSE [ok |-> FALSE]

generate_integer(inference) ==
    IF ~inference.ok THEN [ok |-> FALSE]
    ELSE LET parsed == parse_f64(numeric_part(inference.text, <<>>))
         IN  [ok |-> TRUE,
              value |-> IF parsed.ok THEN round_as_i64(parsed.value) ELSE 0]

generate_float(inference) ==
    IF ~inference.ok THEN [ok |-> FALSE]
    ELSE LET parsed == parse_f64(numeric_part(inference.text, <<>>))
         IN  [ok |-> TRUE,
              value |-> IF parsed.ok THEN parsed.value ELSE Float(FALSE, 0, <<>>)]

\* str::parse::<bool>: exactly "true" or "false", nothing trimmed.
parse_bool(str) ==
    IF str = <<"true">> THEN [ok |-> TRUE, value |-> TRUE]
    ELSE IF str = <<"false">> THEN [ok |-> TRUE, value |-> FALSE]
    ELSE [ok |-> FALSE]

generate_bool(inference) ==
    IF ~inference.ok THEN [ok |-> FALSE]
    ELSE LET parsed == parse_bool(inference.text)
         IN  [ok |-> TRUE, value |-> IF parsed.ok THEN parsed.value ELSE FALSE]

ScalarFns == {"generate_integer", "generate_float", "generate_bool"}

InitScalar ==
    /\ InitServices
    /\ columns = <<>>
    /\ table_exists = FALSE
    /\ \E f \in ScalarFns :
          \/ fn_input = [fn |-> f, inference |-> InferenceError]
          \/ \E k \in 0..MaxResponseLen : \E text \in [1..k -> ResponseChunks] :
                fn_input = [fn |-> f, inference |-> InferenceOk(text)]
    /\ fn_output = NotReturned

Returns(ret) ==
    /\ ~fn_output.done
    /\ fn_output' = [done |-> TRUE, ret |-> ret]
    /\ UNCHANGED <<rows, fn_input, now, active_generations, cancelled, model_cache,
                   columns, table_exists, sess, events, persisted, cancel_at,
                   cancel_result>>

call_generate_integer ==
    /\ fn_input.fn = "generate_integer"
    /\ Returns(generate_integer(fn_input.inference))

call_generate_float ==
    /\ fn_input.fn = "generate_float"
    /\ Returns(generate_float(fn_input.inference))

call_generate_bool ==
    /\ fn_input.fn = "generate_bool"
    /\ Returns(generate_bool(fn_input.inference))

NextScalar ==
    \/ call_generate_integer
    \/ call_generate_float
    \/ call_generate_bool

SpecScalar == InitScalar /\ [][NextScalar]_vars

\* ------------------------------------------------ the prompt assembler
\* A rule is a sequence of tokens: at = TRUE is a match "@text" of the
\* column-reference pattern @(\w+), at = FALSE is the text between matches.
RefToken(name) == [at |-> TRUE, text |-> name]
TextToken(text) == [at |-> FALSE, text |-> text]

RuleTokens ==
    { TextToken("age is "),
      RefToken("first_name"), RefToken("last_name"), RefToken("full_name"),
      RefToken("nickname"),
      RefToken("RANDOM_INT_3_7"), RefToken("RANDOM_INT_3") }

\* The columns of create_test_columns; the rule of the last one is tokens.
PromptColumns(tokens) ==
    << Column(1, "first_name", "TEXT", <<>>),
       Column(2, "last_name", "TEXT", <<>>),
       Column(3, "full_name", "TEXT", tokens) >>

\* The cells generate_row can have pushed before the third column, and the
\* rows prepare_prompt is called with directly.
PromptRows ==
    { <<>>,
      << RowData(Decimal(1), "John") >>,
      << RowData(Decimal(2), "Doe") >>,
      << RowData(Decimal(1), "") >>,
      << RowData(Decimal(1), "John"), RowData(Decimal(2), "Doe") >>,
      << RowData(Decimal(2), "Doe"), RowData(Decimal(1), "John") >> }

CELL_PROMPT_TEMPLATE ==
    << "Generate a ", "{format}", " value for column \"", "{column_name}",
       "\".\n\nRule: ", "{column_rule}",
       "\n\nCRITICAL: Return ONLY the raw value, nothing else. No explanations, no labels, no markdown, no formatting.\nPerspective: ",
       "{persona}", "\n\n", "{words_to_avoid}", "\n\n", "{return}", " :" >>

\* str::replace on a string kept as a sequence of pieces.
RECURSIVE replace(_, _, _)
replace(str, from, to) ==
    IF str = <<>> THEN <<>>
    ELSE (IF Head(str) = from THEN to ELSE <<Head(str)>>)
         \o replace(Tail(str), from, to)

NotFound == [found |-> FALSE]
Found(value) == [found |-> TRUE, value |-> value]

\* column_values: collected from (column_id, value) pairs, the last wins.
column_values(row_data, key) ==
    LET S == {j \in 1..Len(row_data) : row_data[j].column_id = key}
    IN  IF S = {} THEN NotFound ELSE Found(row_data[Max(S)].value)

\* A name_to_value that looks the name itself up among the column ids.
name_to_value_by_name(cols, row_data, name) == column_values(row_data, name)

\* name_to_value: (name, value) for the columns whose id has a value.
name_to_value(cols, row_data, name) ==
    LET S == {i \in 1..Len(cols) :
                 /\ cols[i].name = name
                 /\ column_values(row_data, Decimal(cols[i].id)).found}
    IN  IF S = {} THEN NotFound
        ELSE column_values(row_data, Decimal(cols[Max(S)].id))

\* regex.replace_all(&for_column.rules, ...): one piece per token.
processed_rules(cols, for_column, row_data) ==
    [k \in 1..Len(for_column.rules) |->
        LET token == for_column.rules[k]
            hit == name_to_value(cols, row_data, token.text)
        IN  IF ~token.at THEN token.text
            ELSE IF hit.found THEN hit.value ELSE ""]

\* The prompt built with a fresh WordFrequencyTracker (nothing to avoid).
prepare_prompt(cols, for_column, row_data, persona) ==
    LET format == IF for_column.column_type # "JSON"
                     THEN <<for_column.column_type>>
                     ELSE <<"well formatted ", for_column.column_type,
                            " structure, structure details: ", "">>
        return == IF for_column.column_type # "JSON" THEN <<"Value">>
                  ELSE <<"Response (JSON only, no other text)">>
        t1 == replace(CELL_PROMPT_TEMPLATE, "{persona}", <<persona>>)
        t2 == replace(t1, "{column_name}", <<for_column.name>>)
        t3 == replace(t2, "{column_rule}",
                      processed_rules(cols, for_column, row_data))
        t4 == replace(t3, "{format}", format)
        t5 == replace(t4, "{words_to_avoid}", <<"">>)
    IN  replace(t5, "{return}", return)

InitPrompt ==
    /\ InitServices
    /\ columns = <<>>
    /\ table_exists = FALSE
    /\ \E k \in 0..MaxRuleLen : \E tokens \in [1..k -> RuleTokens] :
          \E row_data \in PromptRows :
             fn_input = [fn |-> "prepare_prompt",
                         columns |-> PromptColumns(tokens),
                         for_column |-> PromptColumns(tokens)[3],
                         row_data |-> row_data,
                         persona |-> "Test Persona"]
    /\ fn_output = NotReturned

\* One call of prepare_prompt; processed_rules is its local of that name.
call_prepare_prompt ==
    /\ fn_input.fn = "prepare_prompt"
    /\ ~fn_output.done
    /\ fn_output' =
          [done |-> TRUE,
           processed_rules |-> processed_rules(fn_input.columns,
                                   fn_input.for_column, fn_input.row_data),
           ret |-> [ok |-> TRUE,
                    value |-> prepare_prompt(fn_input.columns,
                                  fn_input.for_column, fn_input.row_data,
                                  fn_input.persona)]]
    /\ UNCHANGED <<rows, fn_input, now, active_generations, cancelled, model_cache,
                   columns, table_exists, sess, events, persisted, cancel_at,
                   cancel_result>>

NextPrompt == call_prepare_prompt

SpecPrompt == InitPrompt /\ [][NextPrompt]_vars

\* ------------------------------------------- the store under concurrency
\* Threads calling DatasetService::add_row on dataset 1 (the progress
\* callbacks of sessions running on the same dataset), and the value each
\* of them generated for its cells.
StoreCallers == {1, 2}
CallerValue(t) == <<"from caller 1", "from caller 2">>[t]

\* A column whose position was changed with update_column.
PositionedColumn(id, name, position) ==
    [Column(id, name, "TEXT", <<>>) EXCEPT !.position = position]

\* Column tables of a dataset that has columns, in get_columns order.
StoreInitColumns ==
    { << Column(1, "a", "TEXT", <<>>) >>,
      << PositionedColumn(1, "a", 1) >>,
      << Column(1, "a", "TEXT", <<>>), PositionedColumn(2, "b", 1) >> }

InitStore ==
    /\ InitServices
    /\ columns \in StoreInitColumns
    /\ table_exists = TRUE
    /\ fn_input = [t \in StoreCallers |-> NoCall]
    /\ fn_output = [t \in StoreCallers |-> NotReturned]

\* A caller hands add_row one cell per column the dataset had when the
\* caller read the columns.
call_add_row(t) ==
    /\ fn_input[t].fn = "none" \/ fn_output[t].done
    /\ Len(rows) < MaxRows
    /\ fn_input' = [fn_input EXCEPT ![t] =
          [fn |-> "add_row", dataset_id |-> 1,
           data |-> [k \in 1..Len(get_columns(1)) |->
                       RowData(Decimal(get_columns(1)[k].id), CallerValue(t))]]]
    /\ fn_output' = [fn_output EXCEPT ![t] = NotReturned]
    /\ UNCHANGED <<rows, now, active_generations, cancelled, model_cache, columns,
                   table_exists, sess, events, persisted, cancel_at, cancel_result>>

\* data.iter().find(|r| r.column_id == column_id.to_string())
find_cell(data, column_id) ==
    LET S == {j \in 1..Len(data) : data[j].column_id = column_id}
    IN  IF S = {} THEN [found |-> FALSE]
        ELSE [found |-> TRUE,
              value |-> data[CHOOSE j \in S : \A h \in S : j <= h].value]

\* add_row up to the end of execute_transaction (first hold of the
\* connection lock): look the dataset and its columns up, build the row,
\* INSERT it.
add_row_insert(t) ==
    /\ fn_input[t].fn = "add_row"
    /\ fn_output[t] = NotReturned
    /\ LET cols == get_columns(fn_input[t].dataset_id)
           complete == \A k \in 1..Len(cols) :
                          find_cell(fn_input[t].data, Decimal(cols[k].id)).found
       IN  IF find_by_id(fn_input[t].dataset_id) /\ complete /\ table_exists
              THEN /\ rows' = Append(rows,
                        Row(Len(rows) + 1,
                            [k \in 1..Len(cols) |->
                               RowData(Decimal(cols[k].id),
                                       find_cell(fn_input[t].data,
                                                 Decimal(cols[k].id)).value)]))
                   /\ fn_output' = [fn_output EXCEPT ![t] =
                        [done |-> FALSE, inserted_id |-> Len(rows) + 1]]
              ELSE /\ rows' = rows
                   /\ fn_output' = [fn_output EXCEPT ![t] =
                        [done |-> TRUE, ret |-> [ok |-> FALSE]]]
    /\ UNCHANGED <<fn_input, now, active_generations, cancelled, model_cache, columns,
                   table_exists, sess, events, persisted, cancel_at, cancel_result>>

\* The read-back (second hold of the connection lock):
\* SELECT ... ORDER BY id DESC LIMIT 1, returned as the inserted row.
add_row_select(t) ==
    /\ fn_input[t].fn = "add_row"
    /\ ~fn_output[t].done
    /\ fn_output[t] # NotReturned
    /\ fn_output' = [fn_output EXCEPT ![t] =
          [done |-> TRUE, inserted_id |-> fn_output[t].inserted_id,
           ret |-> [ok |-> TRUE, value |-> rows[Len(rows)]]]]
    /\ UNCHANGED <<rows, fn_input, now, active_generations, cancelled, model_cache,
                   columns, table_exists, sess, events, persisted, cancel_at,
                   cancel_result>>

\* Where ORDER BY position ASC can put a new row of the columns table:
\* after the smaller positions, before the larger ones, anywhere among equals.
insert_places(cols, column) ==
    {i \in 0..Len(cols) :
        /\ \A k \in 1..i : cols[k].position <= column.position
        /\ \A k \in (i + 1)..Len(cols) : cols[k].position >= column.position}

\* add_columns with one new column on dataset 1: INSERT into the columns
\* table, get_columns, then json_insert of an empty cell for the id of the
\* last column of that list (new_columns.iter().rev().take(columns.len())).
add_columns(position) ==
    /\ Len(columns) < MaxCols
    /\ find_by_id(1)
    /\ LET column == PositionedColumn(Len(columns) + 1, "c", position)
       IN  \E i \in insert_places(columns, column) :
             LET new_columns == SubSeq(columns, 1, i) \o <<column>>
                                   \o SubSeq(columns, i + 1, Len(columns))
             IN  /\ columns' = new_columns
                 /\ rows' = json_insert_all(rows,
                       Decimal(new_columns[Len(new_columns)].id), "")
    /\ table_exists' = TRUE
    /\ UNCHANGED <<fn_input, fn_output, now, active_generations, cancelled,
                   model_cache, sess, events, persisted, cancel_at, cancel_result>>

NextStore ==
    \/ \E t \in StoreCallers : call_add_row(t)
    \/ \E t \in StoreCallers : add_row_insert(t)
    \/ \E t \in StoreCallers : add_row_select(t)
    \/ \E position \in {0, 1} : add_columns(position)

SpecStore == InitStore /\ [][NextStore]_vars

\* ------------------------------------------------- the text cleaner
\* A text is a sequence of characters. The grave accent of the code fence
\* is written by name, every other character as itself.
Backtick == "grave"
TextChars == {Backtick, "\\", "\"", "'", "n", "\n", " ", "a"}

IsWhitespace(c) == c \in {" ", "\n", "\r", "\t"}

RECURSIVE trim_start(_)
trim_start(str) ==
    IF str # <<>> /\ IsWhitespace(Head(str)) THEN trim_start(Tail(str)) ELSE str

RECURSIVE trim_end(_)
trim_end(str) ==
    IF str # <<>> /\ IsWhitespace(str[Len(str)])
       THEN trim_end(SubSeq(str, 1, Len(str) - 1)) ELSE str

trim(str) == trim_end(trim_start(str))

starts_with(str, pat) ==
    Len(pat) <= Len(str) /\ SubSeq(str, 1, Len(pat)) = pat

ends_with(str, pat) ==
    Len(pat) <= Len(str) /\ SubSeq(str, Len(str) - Len(pat) + 1, Len(str)) = pat

RECURSIVE trim_start_matches(_, _)
trim_start_matches(str, pat) ==
    IF starts_with(str, pat)
       THEN trim_start_matches(SubSeq(str, Len(pat) + 1, Len(str)), pat) ELSE str

RECURSIVE trim_end_matches(_, _)
trim_end_matches(str, pat) ==
    IF ends_with(str, pat)
       THEN trim_end_matches(SubSeq(str, 1, Len(str) - Len(pat)), pat) ELSE str

Fence == <<Backtick, Backtick, Backtick>>
EscapedQuote == <<"\\", "\"">>
DoubleQuote == <<"\"">>
SingleQuote == <<"'">>

\* One turn of the loop: the six trim_end_matches(..).trim_end() lines.
strip_tail(cleaned) ==
    LET c1 == trim_end(trim_end_matches(cleaned, Fence))
        c2 == trim_end(trim_end_matches(c1, EscapedQuote))
        c3 == trim_end(trim_end_matches(c2, <<"\\", "n">>))
        c4 == trim_end(trim_end_matches(c3, <<"\n">>))
        c5 == trim_end(trim_end_matches(c4, <<"\\", "r">>))
    IN  trim_end(trim_end_matches(c5, <<"\r">>))

\* loop { ... if before == cleaned { break; } }
RECURSIVE strip_tail_loop(_)
strip_tail_loop(cleaned) ==
    IF strip_tail(cleaned) = cleaned THEN cleaned
    ELSE strip_tail_loop(strip_tail(cleaned))

\* cleaned starts and ends with the same kind of quote.
is_quoted(cleaned) ==
    \/ starts_with(cleaned, DoubleQuote) /\ ends_with(cleaned, DoubleQuote)
    \/ starts_with(cleaned, SingleQuote) /\ ends_with(cleaned, SingleQuote)

\* The if / else if on the quotes around the text.
strip_quotes(cleaned) ==
    IF is_quoted(cleaned)
       THEN (IF Len(cleaned) > 1
                THEN SubSeq(cleaned, 2, Len(cleaned) - 1) ELSE cleaned)
    ELSE IF starts_with(cleaned, DoubleQuote) \/ starts_with(cleaned, SingleQuote)
       THEN Tail(cleaned)
    ELSE cleaned

clean_text_artifacts(text) ==
    LET tail == strip_tail_loop(trim(text))
        c1 == trim_start(trim_start_matches(tail, Fence))
        c2 == trim_start(trim_start_matches(c1, EscapedQuote))
    IN  trim(strip_quotes(c2))

InitText ==
    /\ InitServices
    /\ columns = <<>>
    /\ table_exists = FALSE
    /\ \E k \in 0..MaxTextLen : \E text \in [1..k -> TextChars] :
          fn_input = [fn |-> "clean_text_artifacts", text |-> text]
    /\ fn_output = NotReturned

call_clean_text_artifacts ==
    /\ fn_input.fn = "clean_text_artifacts"
    /\ ~fn_output.done
    /\ fn_output' = [done |-> TRUE, ret |-> clean_text_artifacts(fn_input.text)]
    /\ UNCHANGED <<rows, fn_input, now, active_generations, cancelled, model_cache,
                   columns, table_exists, sess, events, persisted, cancel_at,
                   cancel_result>>

NextText == call_clean_text_artifacts

SpecText == InitText /\ [][NextText]_vars

\* ------------------------------------- one row over the sorted columns
\* generate's call of the sorter followed by one generate_row, column by
\* column, with the rules kept as tokens.
RowTypes == {"TEXT", "INT", "DATE"}

\* The rule of a column among n: empty, or a text and one reference.
RowRules(n) ==
    {<<>>} \cup {<<TextToken("like "), RefToken(RefName(n, i))>> : i \in 1..(n + 1)}

RowInput(n, types, rules) ==
    [i \in 1..n |-> Column(i, SortNames[i], types[i], rules[i])]

\* regex.captures_iter(&column.rules): the names of the matches of a rule.
RECURSIVE captures_iter(_)
captures_iter(tokens) ==
    IF tokens = <<>> THEN <<>>
    ELSE (IF Head(tokens).at THEN <<Head(tokens).text>> ELSE <<>>)
         \o captures_iter(Tail(tokens))

\* The sorter applied to columns whose rules are token sequences.
sorted_columns(cols) ==
    LET r == sort_columns_by_dependency(
                 [i \in 1..Len(cols) |->
                     [cols[i] EXCEPT !.rules = captures_iter(cols[i].rules)]])
    IN  [ok |-> r.ok,
         value |-> [k \in 1..Len(r.value) |->
                       cols[CHOOSE i \in 1..Len(cols) : cols[i].id = r.value[k].id]]]

\* The value a generator returns for a column, as the cell text.
CellValues(column_type) ==
    IF column_type = "TEXT" THEN {"John", ""} ELSE {"0", "7"}

InitRow ==
    /\ InitServices
    /\ columns = <<>>
    /\ table_exists = FALSE
    /\ \E n \in 0..MaxRowCols :
          \E types \in [1..n -> RowTypes] : \E rules \in [1..n -> RowRules(n)] :
             fn_input = [fn |-> "generate", columns |-> RowInput(n, types, rules)]
    /\ fn_output = NotReturned

\* generate up to the row loop: the sort, whose error is a panic (expect).
generate_sort ==
    /\ fn_input.fn = "generate"
    /\ fn_output = NotReturned
    /\ LET r == sorted_columns(fn_input.columns)
       IN  fn_output' =
              IF ~r.ok THEN [done |-> TRUE, panic |-> TRUE, prompts |-> <<>>]
              ELSE IF r.value = <<>>
                 THEN [done |-> TRUE, panic |-> FALSE,
                       ret |-> [ok |-> TRUE, value |-> <<>>],
                       sorted_columns |-> <<>>, prompts |-> <<>>]
              ELSE [done |-> FALSE, pc |-> "row", sorted_columns |-> r.value,
                    at |-> 1, data |-> <<>>, prompts |-> <<>>]
    /\ UNCHANGED <<rows, fn_input, now, active_generations, cancelled, model_cache,
                   columns, table_exists, sess, events, persisted, cancel_at,
                   cancel_result>>

InRow == fn_input.fn = "generate" /\ ~fn_output.done /\ fn_output # NotReturned

\* One turn of the for loop of generate_row: the prompt of the column over
\* the cells pushed so far, then the generator of the column's type.
generate_row_column ==
    /\ InRow
    /\ fn_output.at <= Len(fn_output.sorted_columns)
    /\ LET column == fn_output.sorted_columns[fn_output.at]
           prompt == [for_column |-> column,
                      row_data |-> fn_output.data,
                      processed_rules |->
                          processed_rules(fn_output.sorted_columns, column,
                                          fn_output.data),
                      value |-> prepare_prompt(fn_output.sorted_columns, column,
                                               fn_output.data, "Test Persona")]
           prompts == Append(fn_output.prompts, prompt)
       IN  \E outcome \in cell_outcomes(column.column_type) :
              \/ /\ outcome = "ok"
                 /\ \E value \in CellValues(column.column_type) :
                       fn_output' =
                          [fn_output EXCEPT
                              !.at = @ + 1,
                              !.prompts = prompts,
                              !.data = Append(@, RowData(Decimal(column.id), value))]
              \/ /\ outcome = "skip"
                 /\ fn_output' = [fn_output EXCEPT !.at = @ + 1,
                                                   !.prompts = prompts]
              \/ /\ outcome \in {"model_error", "parse_error"}
                 /\ fn_output' =
                       [done |-> TRUE, panic |-> FALSE,
                        ret |-> [ok |-> FALSE, value |-> <<>>],
                        sorted_columns |-> fn_output.sorted_columns,
                        prompts |-> prompts]
    /\ UNCHANGED <<rows, fn_input, now, active_generations, cancelled, model_cache,
                   columns, table_exists, sess, events, persisted, cancel_at,
                   cancel_result>>

\* Ok(data) after the last column.
generate_row_return ==
    /\ InRow
    /\ fn_output.at > Len(fn_output.sorted_columns)
    /\ fn_output' = [done |-> TRUE, panic |-> FALSE,
                     ret |-> [ok |-> TRUE, value |-> fn_output.data],
                     sorted_columns |-> fn_output.sorted_columns,
                     prompts |-> fn_output.prompts]
    /\ UNCHANGED <<rows, fn_input, now, active_generations, cancelled, model_cache,
                   columns, table_exists, sess, events, persisted, cancel_at,
                   cancel_result>>

NextRow ==
    \/ generate_sort
    \/ generate_row_column
    \/ generate_row_return

SpecRow == InitRow /\ [][NextRow]_vars

\* ------------------------------------------------------ the JSON cell
\* The characters of the responses handed to generate_json.
EAcute == "e-acute"        \* stands for a letter of two bytes in UTF-8
JsonChars == {"{", "}", "[", "]", "\"", "1", " ", Backtick, EAcute}

\* char::len_utf8
len_utf8(c) == IF c = EAcute THEN 2 ELSE 1

\* The byte offset of the k-th character of str, as str::find returns it.
RECURSIVE byte_offset(_, _)
byte_offset(str, k) ==
    IF k <= 1 THEN 0 ELSE len_utf8(Head(str)) + byte_offset(Tail(str), k - 1)

\* str.chars().nth(n): the character after n characters, None past the end.
chars_nth(str, n) ==
    IF n + 1 <= Len(str) THEN [some |-> TRUE, value |-> str[n + 1]]
    ELSE [some |-> FALSE]

\* str::replace(pat, ""): the matches taken out from left to right.
RECURSIVE remove_all(_, _)
remove_all(str, pat) ==
    IF str = <<>> THEN <<>>
    ELSE IF starts_with(str, pat)
       THEN remove_all(SubSeq(str, Len(pat) + 1, Len(str)), pat)
    ELSE <<Head(str)>> \o remove_all(Tail(str), pat)

\* str::find / str::rfind of a set of characters, 0 for None.
find(str, chars) ==
    LET S == {k \in 1..Len(str) : str[k] \in chars}
    IN  IF S = {} THEN 0 ELSE CHOOSE k \in S : \A m \in S : k <= m

rfind(str, chars) ==
    LET S == {k \in 1..Len(str) : str[k] \in chars}
    IN  IF S = {} THEN 0 ELSE Max(S)

repeat(c, n) == [k \in 1..n |-> c]

\* cleaned.chars().nth(start) with the byte offset start of the first opener.
first_char_of(cleaned) ==
    chars_nth(cleaned, byte_offset(cleaned, find(cleaned, {"{", "["})))

\* The balance loop: +1 for first_char, else -1 for last_char.
balance_of(extracted, first_char, last_char) ==
    IF first_char = last_char THEN seq_count(extracted, first_char)
    ELSE seq_count(extracted, first_char) - seq_count(extracted, last_char)

\* The bracket repair: from the first opener to the last matching closer,
\* then closers appended or openers put in front until the counts agree.
extract_json(cleaned) ==
    LET start == find(cleaned, {"{", "["})
        first_char == first_char_of(cleaned).value
        last_char == IF first_char = "{" THEN "}" ELSE "]"
        slice_after_start == SubSeq(cleaned, start, Len(cleaned))
        rel_end == rfind(slice_after_start, {last_char})
        extracted == IF rel_end # 0 THEN SubSeq(slice_after_start, 1, rel_end)
                     ELSE slice_after_start
        balance == balance_of(extracted, first_char, last_char)
    IN  IF balance > 0 THEN extracted \o repeat(last_char, balance)
        ELSE IF balance < 0 THEN repeat(first_char, 0 - balance) \o extracted
        ELSE extracted

\* The response without its fences and the whitespace at its ends.
json_stripped(response) ==
    trim(remove_all(remove_all(trim(response), Fence \o <<"j", "s", "o", "n">>),
                    Fence))

\* The unwrap of chars().nth(start) panics: there is an opener and fewer
\* characters than bytes before it.
json_panics(response) ==
    /\ find(json_stripped(response), {"{", "["}) # 0
    /\ ~first_char_of(json_stripped(response)).some

\* The text generate_json hands to json5::from_str.
json_cleaned(response) ==
    LET cleaned == json_stripped(response)
    IN  IF find(cleaned, {"{", "["}) # 0 THEN extract_json(cleaned) ELSE cleaned

ParseError == [ok |-> FALSE]

\* One value at the front of str: a run of digits, a string without
\* escapes, an array of at most one element or the empty object; the value
\* is its text without the whitespace between tokens.
RECURSIVE parse_value(_)
parse_value(str) ==
    LET s == trim_start(str)
    IN  IF s = <<>> THEN ParseError
        ELSE IF Head(s) = "1"
           THEN LET n == CHOOSE k \in 1..Len(s) :
                            /\ \A m \in 1..k : s[m] = "1"
                            /\ k = Len(s) \/ s[k + 1] # "1"
                IN  [ok |-> TRUE, value |-> SubSeq(s, 1, n),
                     rest |-> SubSeq(s, n + 1, Len(s))]
        ELSE IF Head(s) = "\""
           THEN LET close == find(Tail(s), {"\""})
                IN  IF close = 0 THEN ParseError
                    ELSE [ok |-> TRUE, value |-> SubSeq(s, 1, close + 1),
                          rest |-> SubSeq(s, close + 2, Len(s))]
        ELSE IF Head(s) = "{"
           THEN LET t == trim_start(Tail(s))
                IN  IF starts_with(t, <<"}">>)
                       THEN [ok |-> TRUE, value |-> <<"{", "}">>, rest |-> Tail(t)]
                    ELSE ParseError
        ELSE IF Head(s) = "["
           THEN LET t == trim_start(Tail(s))
                IN  IF starts_with(t, <<"]">>)
                       THEN [ok |-> TRUE, value |-> <<"[", "]">>, rest |-> Tail(t)]
                    ELSE LET e == parse_value(t)
                         IN  IF e.ok /\ starts_with(trim_start(e.rest), <<"]">>)
                                THEN [ok |-> TRUE,
                                      value |-> <<"[">> \o e.value \o <<"]">>,
                                      rest |-> Tail(trim_start(e.rest))]
                             ELSE ParseError
        ELSE ParseError

\* json5::from_str over these characters: one value and nothing after it.
json5_from_str(str) ==
    LET r == parse_value(str)
    IN  IF r.ok /\ trim_start(r.rest) = <<>>
           THEN [ok |-> TRUE, value |-> r.value]
        ELSE ParseError

generate_json(response) == json5_from_str(json_cleaned(response))

InitJson ==
    /\ InitServices
    /\ columns = <<>>
    /\ table_exists = FALSE
    /\ \E k \in 0..MaxJsonLen : \E response \in [1..k -> JsonChars] :
          fn_input = [fn |-> "generate_json", response |-> response]
    /\ fn_output = NotReturned

\* generate_json on the response the inference returned; cleaned is the
\* local of that name at the call of the parser, and panicked tells that
\* the function panicked before it.
call_generate_json ==
    /\ fn_input.fn = "generate_json"
    /\ ~fn_output.done
    /\ fn_output' = IF json_panics(fn_input.response)
                       THEN [done |-> TRUE, panicked |-> TRUE]
                    ELSE [done |-> TRUE, panicked |-> FALSE,
                          cleaned |-> json_cleaned(fn_input.response),
                          ret |-> generate_json(fn_input.response)]
    /\ UNCHANGED <<rows, fn_input, now, active_generations, cancelled, model_cache,
                   columns, table_exists, sess, events, persisted, cancel_at,
                   cancel_result>>

NextJson == call_generate_json

SpecJson == InitJson /\ [][NextJson]_vars

\* ------------------------------------------------------ the decode loop
\* The vocabulary is the token ids 1..vocab; id 1 is model.token_eos().
token_eos == 1
LogitValues == 0..2

\* model.token_to_str for the other ids.
FenceToken == "fence"      \* stands for the three grave accents of a code fence
token_to_str(id) ==
    IF id = 2 THEN "a" ELSE IF id = 3 THEN "." ELSE IF id = 4 THEN "\n"
    ELSE FenceToken

\* ctx.candidates_ith: one candidate per token id, in id order.
candidates_ith(logits) == [i \in 1..Len(logits) |-> [id |-> i, logit |-> logits[i]]]

\* sort_unstable_by descending logit: every order it may leave equal
\* logits in.
sort_unstable_by(cands) ==
    {s \in {[k \in 1..Len(cands) |-> cands[p[k]]] : p \in Permutations(1..Len(cands))} :
        \A i, j \in 1..Len(s) : i < j => s[i].logit >= s[j].logit}

\* The body of "for candidate in logits_iter" on one top_candidates.
push_candidate(top_candidates, candidate, top_k) ==
    IF Len(top_candidates) < top_k
       THEN (IF Len(top_candidates) + 1 = top_k
                THEN sort_unstable_by(Append(top_candidates, candidate))
                ELSE {Append(top_candidates, candidate)})
    ELSE IF candidate.logit > top_candidates[Len(top_candidates)].logit
       THEN sort_unstable_by(
                Append(SubSeq(top_candidates, 1, Len(top_candidates) - 1), candidate))
    ELSE {top_candidates}

\* The for loop from candidate k on, over every top_candidates it can hold.
RECURSIVE top_candidates_from(_, _, _, _)
top_candidates_from(S, logits_iter, k, top_k) ==
    IF k > Len(logits_iter) THEN S
    ELSE top_candidates_from(
             UNION {push_candidate(tc, logits_iter[k], top_k) : tc \in S},
             logits_iter, k + 1, top_k)

\* let candidates = if config.top_k > 0 { ... } else { ... }
candidates(logits_iter, top_k) ==
    IF top_k > 0 THEN top_candidates_from({<<>>}, logits_iter, 1, top_k)
    ELSE sort_unstable_by(logits_iter)

\* A repetition break that lets one more repeated token through.
repetition_exceeded_late(repetition_count) == repetition_count > REPETITION_LIMIT + 1

\* if repetition_count > 3 { break; }
repetition_exceeded(repetition_count) == repetition_count > REPETITION_LIMIT

\* A break that waits for one token more than max_tokens.
max_tokens_reached_late(tokens_generated, max_tokens) == tokens_generated > max_tokens

\* if tokens_generated >= config.max_tokens { break; }
max_tokens_reached(tokens_generated, max_tokens) == tokens_generated >= max_tokens

\* The three stops inside "if tokens_generated > 10".
early_stop(tokens_generated, response) ==
    /\ tokens_generated > EARLY_STOP_AFTER
    /\ \/ \E c \in {".", "!", "?"} : ends_with(trim(response), <<c>>)
       \/ \E k \in 1..Len(trim(response)) : trim(response)[k] = "\n"
       \/ Len(response) > RESPONSE_LIMIT

InitDecode ==
    /\ InitServices
    /\ columns = <<>>
    /\ table_exists = FALSE
    /\ \E vocab \in 0..MaxVocab : \E top_k \in (0 - 1)..(MaxVocab + 1) :
          \E max_tokens \in 1..MaxTokens :
             fn_input = [fn |-> "inference", vocab |-> vocab, top_k |-> top_k,
                         max_tokens |-> max_tokens]
    /\ fn_output = NotReturned

\* inference up to the loop: tokenise the prompt, fill the batch, decode.
inference_start ==
    /\ fn_input.fn = "inference"
    /\ fn_output = NotReturned
    /\ \/ fn_output' = [done |-> TRUE, ret |-> InferenceError, logits |-> <<>>,
                        next_token |-> 0, tokens_generated |-> 0]
       \/ fn_output' = [done |-> FALSE, pc |-> "loop", response |-> <<>>,
                        tokens_generated |-> 0, repetition_count |-> 0,
                        last_tokens |-> <<>>, logits |-> <<>>, next_token |-> 0]
    /\ UNCHANGED <<rows, fn_input, now, active_generations, cancelled, model_cache,
                   columns, table_exists, sess, events, persisted, cancel_at,
                   cancel_result>>

InLoop == fn_input.fn = "inference" /\ ~fn_output.done /\ fn_output # NotReturned

\* The state after the turn of the loop that broke out of it: Ok(response).
loop_break(logits, next_token, response, tokens_generated) ==
    [done |-> TRUE, ret |-> InferenceOk(response), logits |-> logits,
     next_token |-> next_token, tokens_generated |-> tokens_generated]

\* The logits the model can put out at one turn: any, or for a model that
\* raises one token of fn_input.hot above all others, those.
model_logits ==
    IF "hot" \in DOMAIN fn_input
       THEN {[i \in 1..fn_input.vocab |-> IF i = h THEN 1 ELSE 0] : h \in fn_input.hot}
    ELSE [1..fn_input.vocab -> LogitValues]

\* One turn of the loop for the logits the model puts out.
decode_step ==
    /\ InLoop
    /\ \E logits \in model_logits :
        \E cands \in candidates(candidates_ith(logits), fn_input.top_k) :
          IF cands = <<>>
             THEN fn_output' = loop_break(logits, 0, fn_output.response,
                                          fn_output.tokens_generated)
          ELSE
          LET next_token == cands[1].id
              repeated == /\ Len(fn_output.last_tokens) >= LAST_TOKENS_LEN
                          /\ \A k \in 1..Len(fn_output.last_tokens) :
                                 fn_output.last_tokens[k] = next_token
              repetition_count == IF repeated THEN fn_output.repetition_count + 1
                                  ELSE 0
              pushed == Append(fn_output.last_tokens, next_token)
              last_tokens == IF Len(pushed) > LAST_TOKENS_LEN THEN Tail(pushed)
                             ELSE pushed
              tokens_generated == fn_output.tokens_generated + 1
              response == Append(fn_output.response, token_to_str(next_token))
          IN  IF next_token = token_eos
                 THEN fn_output' = loop_break(logits, next_token, fn_output.response,
                                              fn_output.tokens_generated)
              ELSE IF repeated /\ repetition_exceeded(repetition_count)
                 THEN fn_output' = loop_break(logits, next_token, fn_output.response,
                                              fn_output.tokens_generated)
              ELSE IF max_tokens_reached(tokens_generated, fn_input.max_tokens)
                 THEN fn_output' = loop_break(logits, next_token, fn_output.response,
                                              tokens_generated)
              ELSE \/ fn_output' = [done |-> TRUE, ret |-> InferenceError,
                                    logits |-> logits, next_token |-> next_token,
                                    tokens_generated |-> tokens_generated]
                   \/ IF early_stop(tokens_generated, response)
                         THEN fn_output' = loop_break(logits, next_token, response,
                                                      tokens_generated)
                      ELSE fn_output' =
                              [done |-> FALSE, pc |-> "loop", response |-> response,
                               tokens_generated |-> tokens_generated,
                               repetition_count |-> repetition_count,
                               last_tokens |-> last_tokens, logits |-> logits,
                               next_token |-> next_token]
    /\ UNCHANGED <<rows, fn_input, now, active_generations, cancelled, model_cache,
                   columns, table_exists, sess, events, persisted, cancel_at,
                   cancel_result>>

NextDecode ==
    \/ inference_start
    \/ decode_step

SpecDecode == InitDecode /\ [][NextDecode]_vars

\* The loop is straight-line code of one thread: it keeps taking turns.
SpecDecodeFair == SpecDecode /\ WF_vars(NextDecode)

\* Long runs of the loop: a vocabulary of five tokens, every candidate
\* sorted (top_k = 0), and a model that either puts out end-of-sequence, "a"
\* and "." for up to MaxLongTokens tokens, or end-of-sequence, "a", a newline
\* and a fence for up to MaxShortTokens tokens.
InitDecodeLong ==
    /\ InitServices
    /\ columns = <<>>
    /\ table_exists = FALSE
    /\ \E run \in {[hot |-> {1, 2, 3}, max_tokens |-> MaxLongTokens],
                    [hot |-> {1, 2, 4, 5}, max_tokens |-> MaxShortTokens]} :
          fn_input = [fn |-> "inference", vocab |-> 5, top_k |-> 0,
                      max_tokens |-> run.max_tokens, hot |-> run.hot]
    /\ fn_output = NotReturned

SpecDecodeLong == InitDecodeLong /\ [][NextDecode]_vars

\* ------------------------------------------ a download and its cancel
\* One download_model task (registered by the command before it is spawned)
\* next to one cancel_download call for the same file. fn_output holds:
\* pc, the place of the task; file_exists and remaining, its locals;
\* on_disk, whether the file is in the models directory; registered, the
\* entry of active_downloads; is_cancelled, the token; in_models, the row
\* of the models table; result, what download_model returned; cancel_pc
\* and cancel_ret, the place and the result of cancel_download; faulted,
\* whether the network, the file system or the database failed on their own.
InitDownload ==
    /\ InitServices
    /\ columns = <<>>
    /\ table_exists = FALSE
    /\ \E chunks \in 0..MaxChunks : \E on_disk \in BOOLEAN :
          /\ fn_input = [fn |-> "download_model", chunks |-> chunks]
          /\ fn_output = [done |-> FALSE, pc |-> "exists", file_exists |-> FALSE,
                          remaining |-> chunks, on_disk |-> on_disk,
                          registered |-> TRUE, is_cancelled |-> FALSE,
                          in_models |-> FALSE, result |-> "none",
                          cancel_pc |-> "idle", cancel_ret |-> "none",
                          faulted |-> FALSE]

Downloading(pc) == fn_input.fn = "download_model" /\ fn_output.pc = pc

\* return Err(..) or Ok(()) of download_model: the task goes on to unregister.
download_return(result) == [fn_output EXCEPT !.pc = "unregister", !.result = result]

\* The same for an error of the network, the file system or the database.
download_fault(result) == [download_return(result) EXCEPT !.faulted = TRUE]

\* let file_exists = model_path.exists(), and the metadata of the file.
download_exists ==
    /\ Downloading("exists")
    /\ \/ fn_output' = [fn_output EXCEPT !.pc = "send", !.file_exists = fn_output.on_disk]
       \/ /\ fn_output.on_disk
          /\ fn_output' = download_fault("FsError")
    /\ UNCHANGED <<rows, fn_input, now, active_generations, cancelled, model_cache,
                   columns, table_exists, sess, events, persisted, cancel_at,
                   cancel_result>>

\* request.send().await and the status test.
download_send ==
    /\ Downloading("send")
    /\ \/ fn_output' = [fn_output EXCEPT !.pc = "open"]
       \/ fn_output' = download_fault("HttpError")
    /\ UNCHANGED <<rows, fn_input, now, active_generations, cancelled, model_cache,
                   columns, table_exists, sess, events, persisted, cancel_at,
                   cancel_result>>

\* OpenOptions create + append, or File::create: the file is on disk after it.
download_open ==
    /\ Downloading("open")
    /\ \/ fn_output' = [fn_output EXCEPT !.pc = "next", !.on_disk = TRUE]
       \/ fn_output' = download_fault("FsError")
    /\ UNCHANGED <<rows, fn_input, now, active_generations, cancelled, model_cache,
                   columns, table_exists, sess, events, persisted, cancel_at,
                   cancel_result>>

\* while let Some(chunk) = stream.next().await
stream_next ==
    /\ Downloading("next")
    /\ fn_output' = IF fn_output.remaining > 0
                       THEN [fn_output EXCEPT !.pc = "check", !.remaining = @ - 1]
                    ELSE [fn_output EXCEPT !.pc = "metadata"]
    /\ UNCHANGED <<rows, fn_input, now, active_generations, cancelled, model_cache,
                   columns, table_exists, sess, events, persisted, cancel_at,
                   cancel_result>>

\* if cancel_token.is_cancelled() { return Err(Cancelled) }, then the chunk error.
download_check ==
    /\ Downloading("check")
    /\ IF fn_output.is_cancelled
          THEN fn_output' = download_return("Cancelled")
       ELSE \/ fn_output' = [fn_output EXCEPT !.pc = "write"]
            \/ fn_output' = download_fault("FsError")
    /\ UNCHANGED <<rows, fn_input, now, active_generations, cancelled, model_cache,
                   columns, table_exists, sess, events, persisted, cancel_at,
                   cancel_result>>

\* file.write_all(&chunk) on the open handle; the directory is not touched.
download_write ==
    /\ Downloading("write")
    /\ \/ fn_output' = [fn_output EXCEPT !.pc = "next"]
       \/ fn_output' = download_fault("FsError")
    /\ UNCHANGED <<rows, fn_input, now, active_generations, cancelled, model_cache,
                   columns, table_exists, sess, events, persisted, cancel_at,
                   cancel_result>>

\* std::fs::metadata(&model_path)?.len() after the stream has ended.
download_metadata ==
    /\ Downloading("metadata")
    /\ fn_output' = IF fn_output.on_disk
                       THEN [fn_output EXCEPT !.pc = "insert"]
                    ELSE download_return("FsError")
    /\ UNCHANGED <<rows, fn_input, now, active_generations, cancelled, model_cache,
                   columns, table_exists, sess, events, persisted, cancel_at,
                   cancel_result>>

\* The COUNT(*) of the filename and the INSERT when it is 0.
download_insert ==
    /\ Downloading("insert")
    /\ \/ fn_output' = [download_return("Ok") EXCEPT !.in_models = TRUE]
       \/ /\ ~fn_output.in_models
          /\ fn_output' = download_fault("DatabaseError")
    /\ UNCHANGED <<rows, fn_input, now, active_generations, cancelled, model_cache,
                   columns, table_exists, sess, events, persisted, cancel_at,
                   cancel_result>>

\* unregister_download in the spawned task, after download_model returned.
unregister_download ==
    /\ Downloading("unregister")
    /\ fn_output' = [fn_output EXCEPT !.pc = "finished", !.done = TRUE,
                                      !.registered = FALSE]
    /\ UNCHANGED <<rows, fn_input, now, active_generations, cancelled, model_cache,
                   columns, table_exists, sess, events, persisted, cancel_at,
                   cancel_result>>

\* cancel_download: active_downloads.get(&download_id).cloned()
cancel_download_lookup ==
    /\ fn_input.fn = "download_model"
    /\ fn_output.cancel_pc = "idle"
    /\ fn_output' = IF fn_output.registered
                       THEN [fn_output EXCEPT !.cancel_pc = "cancel"]
                    ELSE [fn_output EXCEPT !.cancel_pc = "returned",
                                           !.cancel_ret = "NotFound"]
    /\ UNCHANGED <<rows, fn_input, now, active_generations, cancelled, model_cache,
                   columns, table_exists, sess, events, persisted, cancel_at,
                   cancel_result>>

\* token.cancel()
cancel_download_token ==
    /\ fn_input.fn = "download_model"
    /\ fn_output.cancel_pc = "cancel"
    /\ fn_output' = [fn_output EXCEPT !.cancel_pc = "remove", !.is_cancelled = TRUE]
    /\ UNCHANGED <<rows, fn_input, now, active_generations, cancelled, model_cache,
                   columns, table_exists, sess, events, persisted, cancel_at,
                   cancel_result>>

\* if model_path.exists() { remove_file(&model_path)? }; Ok(())
cancel_download_remove ==
    /\ fn_input.fn = "download_model"
    /\ fn_output.cancel_pc = "remove"
    /\ \/ fn_output' = [fn_output EXCEPT !.cancel_pc = "returned",
                                          !.cancel_ret = "Ok", !.on_disk = FALSE]
       \/ /\ fn_output.on_disk
          /\ fn_output' = [fn_output EXCEPT !.cancel_pc = "returned",
                                            !.cancel_ret = "FsError",
                                            !.faulted = TRUE]
    /\ UNCHANGED <<rows, fn_input, now, active_generations, cancelled, model_cache,
                   columns, table_exists, sess, events, persisted, cancel_at,
                   cancel_result>>

NextDownload ==
    \/ download_exists
    \/ download_send
    \/ download_open
    \/ stream_next
    \/ download_check
    \/ download_write
    \/ download_metadata
    \/ download_insert
    \/ unregister_download
    \/ cancel_download_lookup
    \/ cancel_download_token
    \/ cancel_download_remove

SpecDownload == InitDownload /\ [][NextDownload]_vars

\* ------------------------------------------- the cache and its handles
\* Two callers of get_or_load_model, one call each, on a cache that maps
\* paths to handles; a handle is the number of the load that made it.
\* fn_output holds: cache, the HashMap; mutex, the caller that holds the
\* cache mutex (0 for none); loads, the loads done so far; call[t], the
\* place of caller t, the cache when it took the mutex and what it returned.
CachePaths == 1..MaxPaths

\* The caches a call can find: up to MAX_CACHED_MODELS paths, loaded in turn.
InitialCaches ==
    {[q \in S |-> Cardinality({r \in S : r <= q})] :
        S \in {T \in SUBSET CachePaths : Cardinality(T) <= MAX_CACHED_MODELS}}

InitHandles ==
    /\ InitServices
    /\ columns = <<>>
    /\ table_exists = FALSE
    /\ \E paths \in [StoreCallers -> CachePaths] : \E cache \in InitialCaches :
          /\ fn_input = [fn |-> "get_or_load_model", paths |-> paths]
          /\ fn_output = [done |-> FALSE, cache |-> cache, mutex |-> 0,
                          loads |-> Cardinality(DOMAIN cache),
                          call |-> [t \in StoreCallers |->
                                       [pc |-> "lock", before |-> cache,
                                        ret |-> "none"]]]

AtCache(t, pc) == fn_input.fn = "get_or_load_model" /\ fn_output.call[t].pc = pc

\* A mutex every caller can take at any time.
mutex_free_always(mutex) == TRUE

\* self.model_cache.lock(): the caller waits while another holds the mutex.
mutex_free(mutex) == mutex = 0

\* The return of caller t: the guard is dropped with it.
cache_return(t, cache, loads, ret) ==
    LET call == [fn_output.call EXCEPT ![t].pc = "returned", ![t].ret = ret]
    IN  [fn_output EXCEPT !.cache = cache, !.loads = loads, !.mutex = 0,
                          !.call = call,
                          !.done = \A u \in StoreCallers : call[u].pc = "returned"]

\* let mut cache = self.model_cache.lock()
cache_lock(t) ==
    /\ AtCache(t, "lock")
    /\ mutex_free(fn_output.mutex)
    /\ fn_output' = [fn_output EXCEPT !.mutex = t,
                                      !.call[t].pc = "get",
                                      !.call[t].before = fn_output.cache]
    /\ UNCHANGED <<rows, fn_input, now, active_generations, cancelled, model_cache,
                   columns, table_exists, sess, events, persisted, cancel_at,
                   cancel_result>>

\* A lookup that loads the model again when the path is cached.
cache_get_reload(t) ==
    /\ AtCache(t, "get")
    /\ LET model_path == fn_input.paths[t]
           handle == fn_output.loads + 1
       IN  fn_output' =
              IF model_path \in DOMAIN fn_output.cache
                 THEN cache_return(t, [fn_output.cache EXCEPT ![model_path] = handle],
                                   handle, [ok |-> TRUE, handle |-> handle])
              ELSE [fn_output EXCEPT !.call[t].pc = "evict"]
    /\ UNCHANGED <<rows, fn_input, now, active_generations, cancelled, model_cache,
                   columns, table_exists, sess, events, persisted, cancel_at,
                   cancel_result>>

\* if let Some(model) = cache.get(model_path) { return Ok(Arc::clone(model)) }
cache_get(t) ==
    /\ AtCache(t, "get")
    /\ LET model_path == fn_input.paths[t]
       IN  fn_output' =
              IF model_path \in DOMAIN fn_output.cache
                 THEN cache_return(t, fn_output.cache, fn_output.loads,
                                   [ok |-> TRUE, handle |-> fn_output.cache[model_path]])
              ELSE [fn_output EXCEPT !.call[t].pc = "evict"]
    /\ UNCHANGED <<rows, fn_input, now, active_generations, cancelled, model_cache,
                   columns, table_exists, sess, events, persisted, cancel_at,
                   cancel_result>>

\* if cache.len() >= MAX_CACHED_MODELS { remove cache.keys().next() }
cache_evict(t) ==
    /\ AtCache(t, "evict")
    /\ \E keys \in evict(DOMAIN fn_output.cache) :
          fn_output' = [fn_output EXCEPT
                           !.cache = [q \in keys |-> fn_output.cache[q]],
                           !.call[t].pc = "load"]
    /\ UNCHANGED <<rows, fn_input, now, active_generations, cancelled, model_cache,
                   columns, table_exists, sess, events, persisted, cancel_at,
                   cancel_result>>

\* LlamaModel::load_from_file(..)?, then the insert and Ok(model_arc).
cache_load(t) ==
    /\ AtCache(t, "load")
    /\ LET model_path == fn_input.paths[t]
           handle == fn_output.loads + 1
       IN  \/ fn_output' =
                 cache_return(t,
                              [q \in DOMAIN fn_output.cache \cup {model_path} |->
                                  IF q = model_path THEN handle
                                  ELSE fn_output.cache[q]],
                              handle, [ok |-> TRUE, handle |-> handle])
           \/ fn_output' = cache_return(t, fn_output.cache, fn_output.loads,
                                        [ok |-> FALSE])
    /\ UNCHANGED <<rows, fn_input, now, active_generations, cancelled, model_cache,
                   columns, table_exists, sess, events, persisted, cancel_at,
                   cancel_result>>

NextHandles ==
    \E t \in StoreCallers :
       \/ cache_lock(t)
       \/ cache_get(t)
       \/ cache_evict(t)
       \/ cache_load(t)

SpecHandles == InitHandles /\ [][NextHandles]_vars

\* ------------------------------------------- datasets and their row tables
\* fn_output holds: datasets, the rows of datasets_metadata (id and
\* table_name n for "dataset<n>"); seq, the highest id AUTOINCREMENT has
\* given out; tables, the row tables by name with their number of rows;
\* call and ret, the last call of the service and what it returned.
CalledIds == 0..MaxDatasets
Pages == 0..2
PageSizes == 0..2

InitDatasets ==
    /\ InitServices
    /\ columns = <<>>
    /\ table_exists = FALSE
    /\ fn_input = [fn |-> "DatasetService"]
    /\ fn_output = [done |-> FALSE, datasets |-> {}, seq |-> 0, tables |-> <<>>,
                    call |-> [op |-> "new"], ret |-> [ok |-> TRUE]]

DatasetError(kind) == [ok |-> FALSE, error |-> kind]

\* SELECT COUNT(*) FROM <table_name>: an error when there is no such table.
count_rows(tables, table_name) ==
    IF table_name \in DOMAIN tables THEN [ok |-> TRUE, value |-> tables[table_name]]
    ELSE DatasetError("DatabaseError")

\* DatasetService::find_by_id on the metadata rows and row tables given.
find_dataset(datasets, tables, id) ==
    IF id <= 0 THEN DatasetError("InvalidInput")
    ELSE IF \A d \in datasets : d.id # id THEN DatasetError("NotFound")
    ELSE LET d == CHOOSE d \in datasets : d.id = id
             n == count_rows(tables, d.table_name)
         IN  [ok |-> TRUE,
              dataset |-> [id |-> d.id, table_name |-> d.table_name,
                           row_count |-> IF n.ok THEN n.value ELSE 0]]

\* SELECT COALESCE(MAX(id), 0) + 1 FROM datasets_metadata
next_id(datasets) ==
    IF datasets = {} THEN 1 ELSE Max({d.id : d \in datasets}) + 1

\* A call of the service returns: the store it leaves and its result.
Called(call, datasets, seq, tables, ret) ==
    /\ fn_output' = [done |-> TRUE, datasets |-> datasets, seq |-> seq,
                     tables |-> tables, call |-> call, ret |-> ret]
    /\ UNCHANGED <<rows, fn_input, now, active_generations, cancelled, model_cache,
                   columns, table_exists, sess, events, persisted, cancel_at,
                   cancel_result>>

\* create: the table name is built from MAX(id) + 1, the id is the next
\* AUTOINCREMENT value, and the row read back is the one with the highest id.
dataset_create ==
    /\ fn_output.seq < MaxDatasets
    /\ LET table_name == next_id(fn_output.datasets)
           id == fn_output.seq + 1
       IN  Called([op |-> "create"],
                  fn_output.datasets \cup {[id |-> id, table_name |-> table_name]},
                  id, fn_output.tables,
                  [ok |-> TRUE,
                   dataset |-> [id |-> id, table_name |-> table_name,
                                row_count |-> 0]])

dataset_find_by_id(id) ==
    /\ fn_input.fn = "DatasetService"
    /\ Called([op |-> "find_by_id", id |-> id], fn_output.datasets, fn_output.seq,
              fn_output.tables,
              find_dataset(fn_output.datasets, fn_output.tables, id))

\* delete: the metadata row goes, the row table stays.
dataset_delete(id) ==
    /\ fn_input.fn = "DatasetService"
    /\ LET found == find_dataset(fn_output.datasets, fn_output.tables, id)
       IN  Called([op |-> "delete", id |-> id],
                  IF found.ok THEN {d \in fn_output.datasets : d.id # id}
                  ELSE fn_output.datasets,
                  fn_output.seq, fn_output.tables,
                  IF found.ok THEN [ok |-> TRUE] ELSE found)

\* add_columns: the row table is created when it does not exist yet.
dataset_add_columns(dataset_id) ==
    /\ fn_input.fn = "DatasetService"
    /\ LET found == find_dataset(fn_output.datasets, fn_output.tables, dataset_id)
       IN  Called([op |-> "add_columns", id |-> dataset_id],
                  fn_output.datasets, fn_output.seq,
                  IF found.ok /\ found.dataset.table_name \notin DOMAIN fn_output.tables
                     THEN [n \in DOMAIN fn_output.tables \cup {found.dataset.table_name} |->
                              IF n \in DOMAIN fn_output.tables THEN fn_output.tables[n]
                              ELSE 0]
                  ELSE fn_output.tables,
                  IF found.ok THEN [ok |-> TRUE] ELSE found)

\* add_row with a cell for every column: INSERT INTO <table_name>.
dataset_add_row(dataset_id) ==
    /\ fn_input.fn = "DatasetService"
    /\ LET found == find_dataset(fn_output.datasets, fn_output.tables, dataset_id)
           inserts == found.ok /\ found.dataset.table_name \in DOMAIN fn_output.tables
       IN  /\ inserts => fn_output.tables[found.dataset.table_name] < MaxTableRows
           /\ Called([op |-> "add_row", id |-> dataset_id],
                     fn_output.datasets, fn_output.seq,
                     IF inserts
                        THEN [fn_output.tables EXCEPT ![found.dataset.table_name] = @ + 1]
                     ELSE fn_output.tables,
                     IF inserts THEN [ok |-> TRUE]
                     ELSE IF found.ok THEN DatasetError("DatabaseError")
                     ELSE found)

\* PaginatedResponse, data by the number of rows on the page.
PaginatedResponse(data, page, page_size, total_rows, total_pages, has_next,
                  has_previous) ==
    [ok |-> TRUE, data |-> data, page |-> page, page_size |-> page_size,
     total_rows |-> total_rows, total_pages |-> total_pages,
     has_next |-> has_next, has_previous |-> has_previous]

\* get_rows: the checks of page and page size, find_by_id, count_rows?, the
\* page range check, table_exists, the SELECT with LIMIT and OFFSET.
get_rows(datasets, tables, dataset_id, page, page_size) ==
    IF page <= 0 \/ page_size <= 0 THEN DatasetError("InvalidInput")
    ELSE LET found == find_dataset(datasets, tables, dataset_id)
         IN  IF ~found.ok THEN found
             ELSE LET counted == count_rows(tables, found.dataset.table_name)
                  IN  IF ~counted.ok THEN counted
                      ELSE LET total_rows == counted.value
                               total_pages ==
                                   (total_rows + page_size - 1) \div page_size
                               offset == (page - 1) * page_size
                               left == total_rows - offset
                           IN  IF total_pages > 0 /\ page > total_pages
                                  THEN DatasetError("InvalidInput")
                               ELSE IF found.dataset.table_name \notin DOMAIN tables
                                  THEN PaginatedResponse(0, page, page_size, 0, 0,
                                                         FALSE, FALSE)
                               ELSE PaginatedResponse(
                                        IF left < 0 THEN 0
                                        ELSE IF left < page_size THEN left
                                        ELSE page_size,
                                        page, page_size, total_rows, total_pages,
                                        page < total_pages, page > 1)

dataset_get_rows(dataset_id, page, page_size) ==
    /\ fn_input.fn = "DatasetService"
    /\ Called([op |-> "get_rows", id |-> dataset_id, page |-> page,
               page_size |-> page_size],
              fn_output.datasets, fn_output.seq, fn_output.tables,
              get_rows(fn_output.datasets, fn_output.tables, dataset_id, page,
                       page_size))

NextDatasets ==
    \/ dataset_create
    \/ \E id \in CalledIds :
          \/ dataset_find_by_id(id)
          \/ dataset_delete(id)
          \/ dataset_add_columns(id)
          \/ dataset_add_row(id)
          \/ \E page \in Pages : \E page_size \in PageSizes :
                dataset_get_rows(id, page, page_size)

SpecDatasets == InitDatasets /\ [][NextDatasets]_vars

TypeOK ==
    /\ now \in 0..MaxClock
    /\ DOMAIN active_generations \subseteq GenerationIds
    /\ \A g \in DOMAIN active_generations : active_generations[g] \in Workers
    /\ model_cache \subseteq ModelIds
    /\ cancel_result \in {"none", "Ok", "Err"}

\* ================================================================ claims
Started(s) == sess[s].pc # "idle"
Running(s) == sess[s].pc \in {"spawned", "loop", "load", "cell", "callback", "finish"}
Finished(s) == sess[s].pc \in {"unregister", "done"}
Target(s) == sess[s].total_rows_to_generate
LastStatus(s) == events[s][Len(events[s])].status

\* C1: a session that ends completed emitted exactly N progress events,
\* counting 1, 2, ..., N, and exactly one terminal status event.
C1_CompletedSessionEvents ==
    \A s \in Workers :
        (Finished(s) /\ LastStatus(s) = "completed") =>
            /\ Len(Progress(s)) = Target(s)
            /\ \A i \in 1..Len(Progress(s)) : Progress(s)[i].completed = i
            /\ Len(Terminals(s)) = 1

\* C2: progress events come in row order and the terminal status is the
\* last event of the session: nothing is emitted after it.
C2_TerminalIsLast ==
    /\ [](\A s \in Workers : \A i, j \in 1..Len(Progress(s)) :
            i < j => Progress(s)[i].completed < Progress(s)[j].completed)
    /\ [][\A s \in Workers : Terminals(s) # <<>> => events'[s] = events[s]]_vars

CancelledMidBatch(s) ==
    /\ Finished(s)
    /\ cancel_at[s].k > 0
    /\ cancel_at[s].k < Target(s)

\* The cancel arrived while the worker was past the cancel check of a row.
CancelInRow(s) == cancel_at[s].pc \in {"load", "cell", "callback"}

ReachesCancelCheck(s) ==
    \/ cancel_at[s].pc = "loop" /\ cancel_at[s].row_index < Target(s)
    \/ /\ CancelInRow(s)
       /\ cancel_at[s].row_index + 1 < Target(s)
       /\ sess[s].result # "error"

C4_CancelBetweenCells ==
    [][\A s \in Workers :
          (cancelled[s] /\ sess[s].pc = "cell" /\ sess[s].data # <<>>) =>
              Len(sess'[s].data) <= Len(sess[s].data)]_vars

\* The cancel flag was set before the worker's first row iteration.
CancelledBeforeFirstRow(s) ==
    /\ cancel_at[s].pc \in {"spawned", "loop"}
    /\ cancel_at[s].row_index = 0

C6_CancelIdempotent ==
    /\ [][\A g \in GenerationIds : cancel_generation(g) =>
            IF g \in DOMAIN active_generations
               THEN cancel_result' = "Ok" /\ cancelled'[active_generations[g]]
               ELSE /\ cancel_result' = "Err"
                    /\ UNCHANGED <<rows, fn_input, fn_output, now, active_generations, cancelled, model_cache,
                                   columns, table_exists, sess, events, persisted,
                                   cancel_at>>]_vars
    /\ [][\A s \in Workers : cancelled[s] => cancelled'[s]]_vars

C6_Witness ==
    /\ cancel_result = "Ok"
    /\ \E g \in DOMAIN active_generations :
          cancelled[active_generations[g]] /\ Running(active_generations[g])

\* C7: a session stays registered, under its own cancel handle, from the
\* return of generate_rows until its terminal status has been emitted, and
\* once it is done its id is no longer in the registry.
C7_RegisteredWhileRunning ==
    \A s \in Workers :
        /\ Running(s) =>
              /\ sess[s].generation_id \in DOMAIN active_generations
              /\ active_generations[sess[s].generation_id] = s
        /\ sess[s].pc = "done" =>
              sess[s].generation_id \notin DOMAIN active_generations

\* C8: generation ids of distinct sessions are distinct.
C8_DistinctGenerationIds ==
    \A s, t \in Workers :
        (s # t /\ Started(s) /\ Started(t)) =>
            sess[s].generation_id # sess[t].generation_id

\* C9: the model cache never holds more than MAX_CACHED_MODELS entries.
C9_CacheBounded == Cardinality(model_cache) <= MAX_CACHED_MODELS

C9_Witness ==
    /\ Cardinality(model_cache) = MAX_CACHED_MODELS
    /\ \E s \in Workers : sess[s].pc = "cell" /\ sess[s].model_id \notin model_cache

\* A session holds its model from the load of a row until the terminal status.
HoldsModel(s) ==
    \/ sess[s].pc \in {"cell", "callback"}
    \/ sess[s].pc \in {"loop", "load", "finish"} /\ sess[s].row_index > 0

\* C10: while a session is running, no get_or_load_model call of another
\* session evicts the cache entry of its model path.
C10_RunningEntryNotEvicted ==
    [][\A s, t \in Workers :
          (/\ s # t
           /\ HoldsModel(s)
           /\ sess[s].model_id \in model_cache
           /\ sess[t].pc = "load"
           /\ sess'[t].pc # "load") =>
              sess[s].model_id \in model_cache']_vars

\* ---- the sorter
\* Column i of cols has a reference to another column j of cols.
RefersTo(cols, i, j) ==
    /\ i # j
    /\ \E k \in 1..Len(cols[i].rules) : cols[i].rules[k] = cols[j].name

\* Some chain of at most k references leads from column i to column j.
RECURSIVE Reaches(_, _, _, _)
Reaches(cols, i, j, k) ==
    \/ RefersTo(cols, i, j)
    \/ /\ k > 1
       /\ \E m \in 1..Len(cols) :
             RefersTo(cols, i, m) /\ Reaches(cols, m, j, k - 1)

HasCycle(cols) == \E i \in 1..Len(cols) : Reaches(cols, i, i, Len(cols))

IsPermutation(a, b) ==
    /\ Len(a) = Len(b)
    /\ {a[k] : k \in 1..Len(a)} = {b[k] : k \in 1..Len(b)}

SortReturned ==
    fn_input.fn = "sort_columns_by_dependency" /\ fn_output.done

\* C11: for a column list whose reference graph has no cycle the sorter
\* returns a permutation of the list in which every reference to another
\* column points to a column placed earlier.
C11_AcyclicSorted ==
    (SortReturned /\ ~HasCycle(fn_input.columns)) =>
        /\ fn_output.ret.ok
        /\ IsPermutation(fn_output.ret.value, fn_input.columns)
        /\ \A p, q \in 1..Len(fn_output.ret.value) :
              RefersTo(fn_output.ret.value, p, q) => q < p

\* Three columns, the first of which names the third twice and the second
\* once: the sorter had to reorder them.
C11_Witness ==
    /\ SortReturned
    /\ ~HasCycle(fn_input.columns)
    /\ Len(fn_input.columns) = 3
    /\ fn_input.columns[2].rules = <<"c", "c">>
    /\ fn_input.columns[1].rules = <<"b", "c">>
    /\ fn_output.ret.ok
    /\ fn_output.ret.value # fn_input.columns

\* C12: for a column list whose reference graph has a cycle among distinct
\* columns the sorter fails with the cycle error and returns no order.
C12_CycleRejected ==
    (SortReturned /\ HasCycle(fn_input.columns)) =>
        /\ ~fn_output.ret.ok
        /\ fn_output.ret.value = <<>>

\* A cycle between two columns next to a third column outside the cycle.
C12_Witness ==
    /\ SortReturned
    /\ Len(fn_input.columns) = 3
    /\ fn_input.columns[1].rules = <<>>
    /\ fn_input.columns[2].rules = <<"c">>
    /\ fn_input.columns[3].rules = <<"a", "b">>
    /\ HasCycle(fn_input.columns)
    /\ ~fn_output.ret.ok

\* ---- rows
\* The worker of session s is inside or past GenerationService::generate.
InGenerate(s) == sess[s].pc \notin {"idle", "spawned"}

\* A cell of the row in progress failed, or the model could not be loaded
\* for it: generate_row returned an error.
RowFailed(s) == sess[s].result = "error" /\ get_model_info(sess[s].model_id)

Stopped(s) == sess[s].pc \in {"finish", "unregister", "done"}

\* C13: a row reaches add_row and the progress sink only when every one of
\* its cells was generated: the callback runs once per finished row, never
\* with a row one of whose cells failed, and a failed row leaves no data.
C13_RowAtomic ==
    \A s \in Workers :
        /\ sess[s].pc = "callback" =>
              /\ sess[s].result = "none"
              /\ sess[s].sorted_columns # <<>> =>
                    sess[s].col = Len(sess[s].sorted_columns) + 1
        /\ RowFailed(s) => (Stopped(s) /\ sess[s].data = <<>>)
        /\ InGenerate(s) =>
              Len(events[s]) = 1 + sess[s].row_index + (IF Finished(s) THEN 1 ELSE 0)

\* The second row fails at its second cell after its first cell was
\* generated: one row persisted, one progress event, nothing of row 2.
C13_Witness ==
    /\ sess[1].pc = "done"
    /\ RowFailed(1)
    /\ sess[1].col = 2
    /\ Len(sess[1].sorted_columns) = 2
    /\ sess[1].row_index = 1
    /\ persisted[1] = 1
    /\ Len(Progress(1)) = 1

\* C14: every row handed to the store has exactly one cell per column of
\* the sorted column list, in the same column-id order.
C14_RowMatchesColumns ==
    \A s \in Workers :
        sess[s].pc = "callback" =>
            sess[s].data = [k \in 1..Len(sess[s].sorted_columns) |->
                              sess[s].sorted_columns[k].id]

TargetZero(s) ==
    /\ Finished(s)
    /\ Target(s) = 0
    /\ find_by_id(sess[s].dataset_id)
    /\ get_model_info(sess[s].model_id)

\* C19 as stated: a session with target 0 on an existing dataset and model
\* emits no progress event, persists no row and ends completed.
C19_TargetZeroOriginal ==
    \A s \in Workers : TargetZero(s) =>
        /\ Progress(s) = <<>>
        /\ persisted[s] = 0
        /\ LastStatus(s) = "completed"

\* C19: a session with target 0 on an existing dataset and model emits no
\* progress event and persists no row; it ends completed when the columns
\* of the dataset can be sorted, and failed when they hold a cycle.
C19_TargetZero ==
    \A s \in Workers : TargetZero(s) =>
        /\ Progress(s) = <<>>
        /\ persisted[s] = 0
        /\ sess[s].row_index = 0
        /\ events[s] = <<StatusEvent("started"),
                         StatusEvent(IF sess[s].result = "panic"
                                        THEN "failed" ELSE "completed")>>
        /\ sess[s].result = "panic" <=>
              ~sort_columns_by_dependency(get_columns(sess[s].dataset_id)).ok

C19_Witness ==
    /\ TargetZero(1)
    /\ columns # <<>>
    /\ LastStatus(1) = "completed"

\* C20: on an empty column list generate_row returns an empty row without
\* an error, and neither loads a model nor touches the model cache.
C20_EmptyColumns ==
    /\ \A s \in Workers :
          (InGenerate(s) /\ sess[s].sorted_columns = <<>>) =>
              /\ sess[s].pc \notin {"load", "cell"}
              /\ sess[s].pc = "callback" =>
                    (sess[s].data = <<>> /\ sess[s].result = "none")
              /\ ~RowFailed(s)
    /\ (\A s \in Workers : sess[s].sorted_columns = <<>>) => model_cache = {}

\* generate_row has just returned the empty row for the second time.
C20_Witness ==
    /\ sess[1].pc = "callback"
    /\ sess[1].sorted_columns = <<>>
    /\ get_model_info(sess[1].model_id)
    /\ sess[1].row_index = 1
    /\ sess[1].data = <<>>
    /\ model_cache = {}

\* ---- scalar post-processors
ScalarReturned == fn_input.fn \in ScalarFns /\ fn_output.done

\* The response holds no number where the post-processor looks for one:
\* the first run of digits, dots and signs is not a decimal number (INT,
\* FLOAT), the response is not exactly true or false (BOOL).
Unparsable(fn, text) ==
    IF fn = "generate_bool" THEN text \notin {<<"true">>, <<"false">>}
    ELSE ~parse_f64(numeric_part(text, <<>>)).ok

DefaultValue(fn) ==
    CASE fn = "generate_integer" -> 0
      [] fn = "generate_float" -> Float(FALSE, 0, <<>>)
      [] fn = "generate_bool" -> FALSE

\* C16: for INT, FLOAT and BOOL a model response never produces an error,
\* and an unparsable response gives the value 0, 0.0 and false.
C16_ScalarDefaults ==
    (ScalarReturned /\ fn_input.inference.ok) =>
        /\ fn_output.ret.ok
        /\ Unparsable(fn_input.fn, fn_input.inference.text) =>
              fn_output.ret.value = DefaultValue(fn_input.fn)

\* The run "1.." is no number: the integer is 0.
C16_Witness ==
    /\ ScalarReturned
    /\ fn_input.fn = "generate_integer"
    /\ fn_input.inference = InferenceOk(<<"1", ".", ".">>)
    /\ fn_output.ret = [ok |-> TRUE, value |-> 0]

\* ---- prompt assembly
PromptReturned == fn_input.fn = "prepare_prompt" /\ fn_output.done

\* The values a random token may be replaced by: @RANDOM_INT_<a>_<b> by an
\* integer of a..b, @RANDOM_INT_<n> by an integer of 0..n-1.
RandomTokens == {"RANDOM_INT_3_7", "RANDOM_INT_3"}
RandomValues(name) ==
    CASE name = "RANDOM_INT_3_7" -> {Decimal(v) : v \in 3..7}
      [] name = "RANDOM_INT_3" -> {Decimal(v) : v \in 0..2}

IsRandomToken(token) == token.at /\ token.text \in RandomTokens

\* C17: prompt assembly replaces every @RANDOM_INT_<a>_<b> token by the
\* decimal form of an integer in [a, b] and every @RANDOM_INT_<n> token by
\* the decimal form of an integer in [0, n).
C17_RandomTokens ==
    PromptReturned =>
        \A k \in 1..Len(fn_input.for_column.rules) :
            IsRandomToken(fn_input.for_column.rules[k]) =>
                fn_output.processed_rules[k]
                    \in RandomValues(fn_input.for_column.rules[k].text)

\* The values of the cells of row_data whose column is named name.
CellsNamed(cols, row_data, name) ==
    {row_data[j].value : j \in {h \in 1..Len(row_data) :
        \E i \in 1..Len(cols) : /\ cols[i].name = name
                                 /\ row_data[h].column_id = Decimal(cols[i].id)}}

\* C18: every @name token of the rule is replaced by the value of the
\* row's cell whose column has that name, and by the empty string when the
\* row has no cell for that name; the text between tokens is kept.
C18_ColumnReferences ==
    PromptReturned =>
        /\ Len(fn_output.processed_rules) = Len(fn_input.for_column.rules)
        /\ \A k \in 1..Len(fn_input.for_column.rules) :
              LET token == fn_input.for_column.rules[k]
                  cells == CellsNamed(fn_input.columns, fn_input.row_data,
                                      token.text)
              IN  /\ ~token.at => fn_output.processed_rules[k] = token.text
                  /\ (token.at /\ ~IsRandomToken(token)) =>
                        IF cells = {} THEN fn_output.processed_rules[k] = ""
                        ELSE cells = {fn_output.processed_rules[k]}

\* "@last_name @first_name @full_name" with cells for the first two names.
C18_Witness ==
    /\ PromptReturned
    /\ fn_input.for_column.rules =
          <<RefToken("last_name"), RefToken("first_name"), RefToken("full_name")>>
    /\ fn_input.row_data = <<RowData("1", "John"), RowData("2", "Doe")>>
    /\ fn_output.processed_rules = <<"Doe", "John", "">>

\* ---- the store
CellsOf(data, column_id) == {k \in 1..Len(data) : data[k].column_id = column_id}

\* C21: the Row returned by an add_row call is the row this call inserted,
\* and its cells hold the values passed to the call.
C21_ReturnedRowIsOwn ==
    \A t \in StoreCallers :
        (fn_input[t].fn = "add_row" /\ fn_output[t].done /\ fn_output[t].ret.ok) =>
            /\ fn_output[t].ret.value.id = fn_output[t].inserted_id
            /\ \A k \in 1..Len(fn_input[t].data) :
                  \E j \in 1..Len(fn_output[t].ret.value.data) :
                     fn_output[t].ret.value.data[j] = fn_input[t].data[k]

NewColumnIds == {columns'[k].id : k \in 1..Len(columns')}
                   \ {columns[k].id : k \in 1..Len(columns)}

\* C24: add_columns gives every existing row exactly one cell with empty
\* value for each new column id and no further cell for an old column id.
C24_NewColumnCells ==
    [][columns' # columns =>
         \A i \in 1..Len(rows) :
            /\ \A id \in NewColumnIds :
                  /\ Cardinality(CellsOf(rows'[i].data, Decimal(id))) = 1
                  /\ \A k \in CellsOf(rows'[i].data, Decimal(id)) :
                        rows'[i].data[k].value = ""
            /\ \A k \in 1..Len(columns) :
                  Cardinality(CellsOf(rows'[i].data, Decimal(columns[k].id)))
                     = Cardinality(CellsOf(rows[i].data, Decimal(columns[k].id)))]_vars

\* ---- text cleaning
\* C22: clean_text_artifacts is idempotent: cleaning a cleaned text gives
\* the cleaned text back.
C22_CleanIdempotent ==
    (fn_input.fn = "clean_text_artifacts" /\ fn_output.done) =>
        clean_text_artifacts(fn_output.ret) = fn_output.ret

\* The columns with every capture taken out of the rules that names the
\* column itself or no column of the list.
WithoutInertReferences(cols) ==
    [i \in 1..Len(cols) |->
        [cols[i] EXCEPT !.rules =
            SelectSeq(cols[i].rules,
                      LAMBDA name : \E j \in 1..Len(cols) :
                                       j # i /\ cols[j].name = name)]]

ColumnIds(cols) == [k \in 1..Len(cols) |-> cols[k].id]

HasInertReference(cols) == WithoutInertReferences(cols) # cols

\* C27: a reference to the column's own name or to a name that is no
\* column is no dependency: the sorter succeeds exactly when the references
\* between distinct columns have no cycle, and it returns the columns in the
\* order it returns for the same list without those references.
C27_InertReferences ==
    SortReturned =>
        /\ fn_output.ret.ok = ~HasCycle(fn_input.columns)
        /\ fn_output.ret.ok =
              sort_columns_by_dependency(WithoutInertReferences(fn_input.columns)).ok
        /\ ColumnIds(fn_output.ret.value) =
              ColumnIds(sort_columns_by_dependency(
                            WithoutInertReferences(fn_input.columns)).value)
        /\ \A k \in 1..Len(fn_output.ret.value) :
              fn_output.ret.value[k] = fn_input.columns[fn_output.ret.value[k].id]

\* The first column names itself and the third, the second names no column
\* and the third names itself: sorted with the third column moved forward.
C27_Witness ==
    /\ SortReturned
    /\ Len(fn_input.columns) = 3
    /\ fn_input.columns[1].rules = <<"a", "c">>
    /\ fn_input.columns[2].rules = <<"zz">>
    /\ fn_input.columns[3].rules = <<"c">>
    /\ fn_output.ret.ok
    /\ ColumnIds(fn_output.ret.value) = <<2, 3, 1>>

\* The place of input column i in the sorted list.
PlaceOf(sorted, i) == CHOOSE k \in 1..Len(sorted) : sorted[k].id = i

\* The place of the dependency of input column i that comes last in the
\* sorted list, 0 for a column that depends on no other column.
LastDependency(cols, sorted, i) ==
    LET deps == {j \in 1..Len(cols) : RefersTo(cols, i, j)}
    IN  IF deps = {} THEN 0 ELSE Max({PlaceOf(sorted, j) : j \in deps})

\* C28: a successful sort is the first-in-first-out order: columns that
\* depend on no other column come first in their input order, a column comes
\* before every column whose last dependency is placed later than its own,
\* and columns released by the same dependency keep their input order; a
\* list without references between columns is returned as it was given.
C28_InputOrderTieBreak ==
    (SortReturned /\ fn_output.ret.ok) =>
        LET cols == fn_input.columns
            sorted == fn_output.ret.value
        IN  /\ \A i, j \in 1..Len(cols) :
                  LET li == LastDependency(cols, sorted, i)
                      lj == LastDependency(cols, sorted, j)
                  IN  (li < lj \/ (li = lj /\ i < j)) =>
                         PlaceOf(sorted, i) < PlaceOf(sorted, j)
            /\ (\A i, j \in 1..Len(cols) : ~RefersTo(cols, i, j)) =>
                  sorted = cols

\* Three columns: the first depends on the third, the other two on nothing;
\* the second and third keep their order and the first follows them.
C28_Witness ==
    /\ SortReturned
    /\ fn_output.ret.ok
    /\ Len(fn_input.columns) = 3
    /\ fn_input.columns[1].rules = <<"c">>
    /\ fn_input.columns[2].rules = <<>>
    /\ fn_input.columns[3].rules = <<>>
    /\ ColumnIds(fn_output.ret.value) = <<2, 3, 1>>

\* ---- references resolved within the row
\* The prompts assembled so far in the row under generation.
RowPrompts ==
    IF fn_input.fn = "generate" /\ fn_output # NotReturned
       THEN fn_output.prompts ELSE <<>>

\* Token k of the rule of p's column names another column of the list.
NamesOtherColumn(p, k, j) ==
    /\ p.for_column.rules[k].at
    /\ fn_input.columns[j].name = p.for_column.rules[k].text
    /\ fn_input.columns[j].id # p.for_column.id

\* C26: whenever generate_row assembles the prompt of a column of the
\* sorted list, every other column that the column's rule references has its
\* cell in the row so far, and the reference is replaced by that cell's value.
C26_ReferencesResolvedInRow ==
    \A n \in 1..Len(RowPrompts) :
       LET p == RowPrompts[n]
       IN  \A k \in 1..Len(p.for_column.rules) :
              \A j \in 1..Len(fn_input.columns) :
                 NamesOtherColumn(p, k, j) =>
                    \E c \in 1..Len(p.row_data) :
                       /\ p.row_data[c].column_id = Decimal(fn_input.columns[j].id)
                       /\ p.processed_rules[k] = p.row_data[c].value

\* The same for lists whose columns all have a type generate_row handles.
C26_SupportedTypesOnly ==
    (\A j \in 1..Len(fn_input.columns) :
        fn_input.columns[j].column_type \in SupportedTypes) =>
       C26_ReferencesResolvedInRow

\* The first column references the second: the second is generated first
\* and its value stands in the first column's prompt.
C26_Witness ==
    /\ fn_input.fn = "generate"
    /\ fn_output.done
    /\ Len(fn_input.columns) = 2
    /\ fn_input.columns[1].rules = <<TextToken("like "), RefToken("b")>>
    /\ fn_input.columns[2].column_type = "TEXT"
    /\ Len(fn_output.prompts) = 2
    /\ fn_output.prompts[2].for_column.id = 1
    /\ fn_output.prompts[2].processed_rules = <<"like ", "John">>

\* ---- the JSON repair
JsonReturned ==
    fn_input.fn = "generate_json" /\ fn_output.done /\ ~fn_output.panicked

\* The response is one JSON value (with whitespace around its tokens).
IsValidJson(response) == json5_from_str(response).ok

WithoutWhitespace(str) == SelectSeq(str, LAMBDA c : ~IsWhitespace(c))

\* As many closers as openers of each kind, counted as the repair counts.
IsBalanced(response) ==
    /\ seq_count(response, "{") = seq_count(response, "}")
    /\ seq_count(response, "[") = seq_count(response, "]")

\* C23: for a response that is balanced valid JSON the text handed to the
\* parser is the response up to whitespace, and the cell is the value of
\* the response.
C23_RepairNoOp ==
    (JsonReturned /\ IsValidJson(fn_input.response)
                  /\ IsBalanced(fn_input.response)) =>
        /\ WithoutWhitespace(fn_output.cleaned) =
              WithoutWhitespace(fn_input.response)
        /\ fn_output.ret = json5_from_str(fn_input.response)

\* The same for responses without a string in them.
C23_NoStrings ==
    seq_count(fn_input.response, "\"") = 0 => C23_RepairNoOp

\* ---- the decode loop
\* A turn of the loop has taken a token out of the logits.
TokenTaken ==
    fn_input.fn = "inference" /\ fn_output # NotReturned /\ fn_output.next_token # 0

\* C29: the token a decode step takes has the highest logit of the
\* vocabulary, whatever the vocabulary size and top_k.
C29_HighestLogit ==
    TokenTaken =>
        \A i \in 1..Len(fn_output.logits) :
           fn_output.logits[i] <= fn_output.logits[fn_output.next_token]

\* The same when the vocabulary is at least as large as top_k, or top_k <= 0.
C29_VocabAtLeastTopK ==
    fn_input.fn = "inference" /\ fn_input.vocab >= fn_input.top_k
       => C29_HighestLogit

InferenceDone == fn_input.fn = "inference" /\ fn_output.done

\* The response and the token count stay within max_tokens.
WithinMaxTokens ==
    (fn_input.fn = "inference" /\ fn_output # NotReturned) =>
        /\ fn_output.tokens_generated <= fn_input.max_tokens
        /\ IF fn_output.done
              THEN fn_output.ret.ok => Len(fn_output.ret.text) <= fn_input.max_tokens
              ELSE Len(fn_output.response) <= fn_input.max_tokens

\* C30: whatever logits the model puts out, the decode loop ends, it has
\* counted at most max_tokens tokens, and the response is made of at most
\* max_tokens token strings.
C30_LoopTerminates ==
    /\ []WithinMaxTokens
    /\ <>InferenceDone

\* A model that never puts end-of-sequence first: the loop ended on
\* max_tokens with max_tokens = 3 and two token strings in the response.
C30_Witness ==
    /\ InferenceDone
    /\ fn_input.max_tokens = 3
    /\ fn_output.tokens_generated = 3
    /\ fn_output.next_token # token_eos
    /\ fn_output.ret.ok
    /\ Len(fn_output.ret.text) = 2

\* ---- cancelling a download
\* The download task has finished and the cancel call has returned Ok,
\* and nothing but the two of them failed.
CancelledAndFinished ==
    /\ fn_input.fn = "download_model"
    /\ fn_output.pc = "finished"
    /\ fn_output.cancel_ret = "Ok"
    /\ ~fn_output.faulted

\* C25: when a cancel_download call returned Ok for a running download,
\* the finished download task has returned the Cancelled error, the model
\* file is not in the models directory and the models table has no row for
\* it.
C25_CancelledDownload ==
    CancelledAndFinished =>
        /\ fn_output.result = "Cancelled"
        /\ ~fn_output.on_disk
        /\ ~fn_output.in_models

\* The case of the test: the cancel falls into the stream, the task sees
\* the token at its next chunk and the file is gone.
C25_TestCase ==
    /\ CancelledAndFinished
    /\ fn_output.result = "Cancelled"
    /\ ~fn_output.on_disk
    /\ ~fn_output.in_models

\* ---- the stops of the decode loop
\* The token strings the loop has appended so far, or has returned.
Appended ==
    IF fn_input.fn # "inference" \/ fn_output = NotReturned THEN <<>>
    ELSE IF ~fn_output.done THEN fn_output.response
    ELSE IF fn_output.ret.ok THEN fn_output.ret.text ELSE <<>>

\* The last 10 tokens taken all equal the token taken at this turn.
RepeatsLastTen ==
    /\ Len(fn_output.last_tokens) >= 10
    /\ \A k \in 1..Len(fn_output.last_tokens) :
          fn_output.last_tokens[k] = fn_output'.next_token

\* More than n consecutive copies of one token string somewhere in str.
HasRunLongerThan(str, n) ==
    \E k \in 1..(Len(str) - n) : \A m \in k..(k + n) : str[m] = str[k]

CounterRule ==
    /\ (InLoop /\ InLoop') =>
          IF RepeatsLastTen
             THEN /\ fn_output'.repetition_count = fn_output.repetition_count + 1
                  /\ fn_output'.repetition_count <= 3
             ELSE fn_output'.repetition_count = 0
    /\ (InLoop /\ fn_output'.next_token \notin {0, token_eos}
               /\ RepeatsLastTen /\ fn_output.repetition_count + 1 > 3) =>
          /\ fn_output'.done
          /\ fn_output'.ret = InferenceOk(fn_output.response)

\* C31: a turn whose candidate equals all of the last 10 tokens adds one to
\* the repetition counter and the loop stops when the counter exceeds 3;
\* any other candidate sets the counter to 0; the response never holds more
\* than 13 consecutive copies of one token.
C31_RepetitionBreak ==
    /\ []~HasRunLongerThan(Appended, 13)
    /\ [][CounterRule]_vars

\* Thirteen copies of "a" appended, and the loop stopped at the
\* fourteenth candidate "a".
C31_Witness ==
    /\ fn_input.fn = "inference"
    /\ fn_output.done
    /\ fn_output.ret = InferenceOk([k \in 1..13 |-> "a"])
    /\ fn_output.next_token = 2
    /\ fn_output.tokens_generated = 13

\* The response holds a newline or a code fence.
HoldsNewlineOrFence(str) == \E k \in 1..Len(str) : str[k] \in {"\n", FenceToken}

\* C32: once more than 3 tokens have been generated and the response holds
\* a newline or a code fence, no further token is appended to it.
C32_StopOnNewlineOrFence ==
    [][(InLoop /\ fn_output.tokens_generated > 3
               /\ HoldsNewlineOrFence(fn_output.response)) =>
          Len(Appended') <= Len(Appended)]_vars

\* ---- the cache and its handles
\* Caller t returns at this step from a call that found its path cached.
ReturnsHit(t) ==
    /\ AtCache(t, "get")
    /\ fn_input.paths[t] \in DOMAIN fn_output.cache
    /\ fn_output'.call[t].pc = "returned"

\* C33: a call for a path that is cached returns the handle the cache
\* holds for it, the handle an earlier successful call for the path
\* returned; it loads nothing, evicts nothing and leaves the cache as it is.
C33_CacheHit ==
    [][\A t \in StoreCallers :
          ReturnsHit(t) =>
             /\ fn_output'.call[t].ret =
                   [ok |-> TRUE, handle |-> fn_output.cache[fn_input.paths[t]]]
             /\ fn_output'.cache = fn_output.cache
             /\ fn_output'.cache = fn_output.call[t].before
             /\ fn_output'.loads = fn_output.loads
             /\ \A u \in StoreCallers :
                   (/\ fn_input.paths[u] = fn_input.paths[t]
                    /\ fn_output.call[u].pc = "returned"
                    /\ fn_output.call[u].ret # [ok |-> FALSE])
                   => fn_output'.call[t].ret = fn_output.call[u].ret]_vars

\* Caller 1 loaded path 1 into a cache that held path 2, and caller 2 got
\* the same handle from the cache afterwards.
C33_Witness ==
    /\ fn_input.fn = "get_or_load_model"
    /\ fn_input.paths = [t \in StoreCallers |-> 1]
    /\ fn_output.done
    /\ fn_output.loads = 2
    /\ fn_output.call[1].ret = [ok |-> TRUE, handle |-> 2]
    /\ fn_output.call[2].ret = [ok |-> TRUE, handle |-> 2]
    /\ fn_output.call[2].before = fn_output.cache

\* C34: a call whose load failed returns the error and leaves the cache as
\* it was when the call began.
C34_FailedLoadKeepsCache ==
    \A t \in StoreCallers :
       (AtCache(t, "returned") /\ fn_output.call[t].ret = [ok |-> FALSE]
          /\ \A u \in StoreCallers \ {t} : fn_output.call[u].pc = "lock")
       => fn_output.cache = fn_output.call[t].before

\* The same for a cache below capacity.
C34_BelowCapacity ==
    \A t \in StoreCallers :
       (AtCache(t, "returned") /\ fn_output.call[t].ret = [ok |-> FALSE]
          /\ \A u \in StoreCallers \ {t} : fn_output.call[u].pc = "lock"
          /\ Cardinality(DOMAIN fn_output.call[t].before) < MAX_CACHED_MODELS)
       => fn_output.cache = fn_output.call[t].before

\* Both callers asked for the same path, which the cache did not hold.
SameUncachedPath ==
    /\ fn_input.fn = "get_or_load_model"
    /\ fn_input.paths[1] = fn_input.paths[2]
    /\ \E t \in StoreCallers : fn_input.paths[t] \notin DOMAIN fn_output.call[t].before

\* C35: when both callers ask for one uncached path and both get a handle,
\* the path was loaded once and the two handles are the same; while one
\* caller is between its lookup and its insert the other holds no mutex.
C35_LoadedOnce ==
    /\ (SameUncachedPath /\ fn_output.done
           /\ \A t \in StoreCallers : fn_output.call[t].ret # [ok |-> FALSE]) =>
          /\ fn_output.call[1].ret = fn_output.call[2].ret
          /\ \E t \in StoreCallers :
                fn_output.loads = Cardinality(DOMAIN fn_output.call[t].before) + 1
    /\ fn_input.fn = "get_or_load_model" =>
          ~(\A t \in StoreCallers : fn_output.call[t].pc \in {"get", "evict", "load"})

\* Both callers asked for path 3 on an empty cache: one load, one handle.
C35_Witness ==
    /\ SameUncachedPath
    /\ fn_output.done
    /\ fn_input.paths[1] = 3
    /\ fn_output.call[1].before = <<>>
    /\ fn_output.call[1].ret = [ok |-> TRUE, handle |-> 1]
    /\ fn_output.call[2].ret = [ok |-> TRUE, handle |-> 1]
    /\ fn_output.loads = 1

\* ---- a session on columns that hold a reference cycle
\* The sort of session s failed on a cycle: generate panicked.
SortPanicked(s) == InGenerate(s) /\ sess[s].result = "panic"

BoolReturned ==
    ScalarReturned /\ fn_input.fn = "generate_bool" /\ fn_input.inference.ok

\* C37: the value of a BOOL cell is true when the response without the
\* whitespace at its ends is "true", and false for every other response.
C37_BoolTrimmed ==
    BoolReturned =>
        fn_output.ret = [ok |-> TRUE,
                         value |-> trim(fn_input.inference.text) = <<"true">>]

\* The value is true for the response "true" as it stands and false for
\* every other response.
C37_BoolAsItStands ==
    BoolReturned =>
        fn_output.ret = [ok |-> TRUE, value |-> fn_input.inference.text = <<"true">>]

\* ---- the bracket repair
Openers == {"{", "["}
Closer(opener) == IF opener = "{" THEN "}" ELSE "]"

\* The first opener of a response that holds one.
FirstOpener(response) == response[find(response, Openers)]

\* The text starts with the opener and holds as many of its closers.
StartsBalanced(text, opener) ==
    /\ text # <<>>
    /\ Head(text) = opener
    /\ seq_count(text, opener) = seq_count(text, Closer(opener))

\* C38: for a response that holds an opener, generate_json reaches the
\* parser with a text that starts with the first opener of the response and
\* holds as many openers as closers of that opener's kind.
C38_RepairBalances ==
    (fn_input.fn = "generate_json" /\ fn_output.done
        /\ find(fn_input.response, Openers) # 0) =>
       /\ ~fn_output.panicked
       /\ StartsBalanced(fn_output.cleaned, FirstOpener(fn_input.response))

\* The same for the responses whose characters are one byte long each.
C38_OneByteCharacters ==
    seq_count(fn_input.response, EAcute) = 0 => C38_RepairBalances

\* Closers were appended to "[[1", and openers put in front of "{}}".
C38_WitnessOneByte ==
    /\ JsonReturned
    /\ \/ fn_input.response = <<"[", "[", "1">>
          /\ fn_output.cleaned = <<"[", "[", "1", "]", "]">>
       \/ fn_input.response = <<"1", "{", "}", "}">>
          /\ fn_output.cleaned = <<"{", "{", "}", "}">>

\* ---- datasets and their row tables
DatasetCalled(op) == fn_input.fn = "DatasetService" /\ fn_output.call.op = op

\* C39: the dataset create has just returned has no rows: find_by_id
\* reports row_count 0 for it, and its table_name names no row table that
\* exists already (one left behind by a deleted dataset).
C39_CreatedDatasetIsEmpty ==
    (DatasetCalled("create") /\ fn_output.ret.ok) =>
        LET found == find_dataset(fn_output.datasets, fn_output.tables,
                                  fn_output.ret.dataset.id)
        IN  /\ found.ok
            /\ found.dataset.row_count = 0
            /\ found.dataset.table_name \notin DOMAIN fn_output.tables

\* The dataset create returns is the one find_by_id finds under its id,
\* up to the row count.
C39_CreatedDatasetIsFound ==
    (DatasetCalled("create") /\ fn_output.ret.ok) =>
        LET found == find_dataset(fn_output.datasets, fn_output.tables,
                                  fn_output.ret.dataset.id)
        IN  /\ found.ok
            /\ found.dataset.id = fn_output.ret.dataset.id
            /\ found.dataset.table_name = fn_output.ret.dataset.table_name

\* The call was get_rows with a valid page and page size on a dataset that
\* exists and whose row table does not.
GetRowsWithoutTable ==
    /\ DatasetCalled("get_rows")
    /\ fn_output.call.page > 0
    /\ fn_output.call.page_size > 0
    /\ LET found == find_dataset(fn_output.datasets, fn_output.tables,
                                 fn_output.call.id)
       IN  found.ok /\ found.dataset.table_name \notin DOMAIN fn_output.tables

\* C40: get_rows on an existing dataset without a row table returns the
\* empty page: no rows, total_rows 0, total_pages 0, no next and no
\* previous page.
C40_EmptyPageWithoutTable ==
    GetRowsWithoutTable =>
        fn_output.ret = PaginatedResponse(0, fn_output.call.page,
                                          fn_output.call.page_size, 0, 0,
                                          FALSE, FALSE)

\* get_rows on a row table that exists: the totals are those of the table.
C40_WithTable ==
    (DatasetCalled("get_rows") /\ fn_output.ret.ok) =>
        LET found == find_dataset(fn_output.datasets, fn_output.tables,
                                  fn_output.call.id)
        IN  /\ found.dataset.table_name \in DOMAIN fn_output.tables
            /\ fn_output.ret.total_rows = found.dataset.row_count
            /\ fn_output.ret.data <= fn_output.call.page_size

====
